---- MODULE Spec2Model ----
(***************************************************************************)
(* A state-machine model of the interactive prompts of package asky.       *)
(*                                                                         *)
(* Select sessions: singleSelect.Render and multiSelect.Render.  A prompt  *)
(* object is built with the With... methods, Render runs the entry checks, *)
(* initialises the session and then handles one key event after another    *)
(* until the keyboard loop ends.                                           *)
(*                                                                         *)
(* Strings are sequences of one-character strings, so that lower-casing,   *)
(* substring search, appending a rune and cutting the last character are   *)
(* computed rather than assumed.                                           *)
(***************************************************************************)
EXTENDS Integers, Sequences, FiniteSets, TLC

(***************************************************************************)
(* Bounds of the model.                                                    *)
(***************************************************************************)
\* Longest choice list a prompt is configured with.
MaxChoices == 3
\* Longest search query typed in a session.
MaxQuery == 2

(***************************************************************************)
(* Go built-ins and the string functions the prompts use.                  *)
(***************************************************************************)
min(a, b) == IF a < b THEN a ELSE b
max(a, b) == IF a > b THEN a ELSE b

\* unicode.ToLower on the letters of the model's alphabet.
UpperToLower ==
    [c \in {"A", "B", "C", "D", "E", "N"} |->
        CASE c = "A" -> "a" [] c = "B" -> "b" [] c = "C" -> "c"
          [] c = "D" -> "d" [] c = "E" -> "e" [] c = "N" -> "n"]

\* A string is the sequence of its bytes.  An ASCII character is one byte,
\* written as itself; the rune U+00E9 (e with acute accent) is the two bytes
\* 0xC3 0xA9 in UTF-8.
\* string(r): the UTF-8 encoding of the rune r.
String(r) == IF r = "U+00E9" THEN <<"0xC3", "0xA9">> ELSE <<r>>

\* The bytes of the model that are not ASCII, and the encoding of utf8.RuneError.
LeadBytes == {"0xC3"}
ContinuationBytes == {"0xA9"}
RuneErrorBytes == <<"0xEF", "0xBF", "0xBD">>
isASCII(s) == \A i \in 1..Len(s) : s[i] \notin LeadBytes \cup ContinuationBytes

\* strings.Map(unicode.ToLower, s) from byte i on: a two-byte rune is kept
\* (U+00E9 is a lower-case letter), a byte that starts no rune becomes
\* utf8.RuneError.
RECURSIVE MapToLower(_, _)
MapToLower(s, i) ==
    IF i > Len(s) THEN <<>>
    ELSE IF s[i] \in LeadBytes /\ i < Len(s) /\ s[i + 1] \in ContinuationBytes
         THEN <<s[i], s[i + 1]>> \o MapToLower(s, i + 2)
    ELSE IF s[i] \in LeadBytes \cup ContinuationBytes
         THEN RuneErrorBytes \o MapToLower(s, i + 1)
    ELSE <<IF s[i] \in DOMAIN UpperToLower THEN UpperToLower[s[i]] ELSE s[i]>>
             \o MapToLower(s, i + 1)

\* strings.ToLower: every character mapped to its lower case; ASCII strings
\* byte by byte, the others through strings.Map.
ToLower(s) ==
    IF isASCII(s)
    THEN [i \in 1..Len(s) |-> IF s[i] \in DOMAIN UpperToLower THEN UpperToLower[s[i]] ELSE s[i]]
    ELSE MapToLower(s, 1)

\* strings.Contains: substr occurs in s at some offset (the empty string always does).
Contains(s, substr) ==
    \E off \in 0..(Len(s) - Len(substr)) :
        SubSeq(s, off + 1, off + Len(substr)) = substr

\* strconv.Itoa
Itoa(n) == ToString(n)

(***************************************************************************)
(* Choices.                                                                *)
(***************************************************************************)
\* Choice{}: the zero value of the struct.
ZeroChoice == [Value |-> "", Label |-> <<>>, Disabled |-> FALSE]

FruitLabels ==
    << <<"A", "p", "p", "l", "e">>,
       <<"B", "a", "n", "a", "n", "a">>,
       <<"C", "h", "e", "r", "r", "y">>,
       <<"D", "a", "t", "e">>,
       <<"E", "l", "d", "e", "r">> >>
FruitValues == <<"apple", "banana", "cherry", "date", "elder">>

\* The first n fruits; the second one is disabled.
Fruits(n) ==
    [i \in 1..n |-> [Value |-> FruitValues[i], Label |-> FruitLabels[i], Disabled |-> (i = 2)]]

\* Two choices, the second with a label that is not ASCII (Cafe with an
\* acute accent on the e).
CafeChoices ==
    << [Value |-> "apple", Label |-> <<"A", "p", "p", "l", "e">>, Disabled |-> FALSE],
       [Value |-> "cafe", Label |-> <<"C", "a", "f", "0xC3", "0xA9">>, Disabled |-> FALSE] >>

\* The same list with the empty string as the first choice's value.
FruitsBlank(n) ==
    [i \in 1..n |-> IF i = 1 THEN [Fruits(n)[i] EXCEPT !.Value = ""] ELSE Fruits(n)[i]]

(***************************************************************************)
(* The prompt objects and their configuration methods.                     *)
(***************************************************************************)
NewSingleSelect ==
    [kind |-> "single", choices |-> <<>>, defaultChoice |-> -1, defaultChoices |-> <<>>,
     optional |-> FALSE, minSelectedCount |-> 0, maxSelectedCount |-> 0,
     pageSize |-> 10, selectedChoice |-> ZeroChoice, selectedChoices |-> <<>>]

NewMultiSelect ==
    [kind |-> "multi", choices |-> <<>>, defaultChoice |-> -1, defaultChoices |-> <<>>,
     optional |-> FALSE, minSelectedCount |-> 0, maxSelectedCount |-> 0,
     pageSize |-> 7, selectedChoice |-> ZeroChoice, selectedChoices |-> <<>>]

WithChoices(p, ch) == [p EXCEPT !.choices = ch]
WithPageSize(p, n) == [p EXCEPT !.pageSize = n]
Optional(p) == [p EXCEPT !.optional = TRUE]
ssWithDefaultChoice(p, idx) == [p EXCEPT !.defaultChoice = max(0, idx)]
msWithDefaultChoice(p, idxs) ==
    IF Len(idxs) > 0 THEN [p EXCEPT !.defaultChoices = idxs] ELSE p
WithMinSelectedCount(p, n) == [p EXCEPT !.minSelectedCount = max(n, 0)]
WithMaxSelectedCount(p, n) == [p EXCEPT !.maxSelectedCount = max(n, 0)]

(***************************************************************************)
(* The terminal metrics provider and the space check.                      *)
(***************************************************************************)
\* term.GetSize: the reported size, or (0, 0, err).
getTermDimensions(t) ==
    IF t.err THEN [width |-> 0, height |-> 0] ELSE [width |-> t.width, height |-> t.height]

\* Mutant: a terminal with exactly the rows asked for is refused.
makeSpaceFailsRowsOffByOne(t, lines) ==
    LET d == getTermDimensions(t) IN d.height <= lines \/ d.width < 50

\* makeSpace(lines) # nil
makeSpaceFails(t, lines) ==
    LET d == getTermDimensions(t) IN d.height < lines \/ d.width < 50

\* padLine: the width of the terminal the banner's lines are padded to.
padLineTermWidth(t) ==
    LET d == getTermDimensions(t) IN IF t.err \/ d.width <= 0 THEN 80 ELSE d.width

\* Progress.Start, redraw: the width of the terminal the bar is fitted to
\* (the provider's error is dropped, the width is tested).
progressTermWidth(t) ==
    LET d == getTermDimensions(t) IN IF d.width <= 0 THEN 80 ELSE d.width

(***************************************************************************)
(* State.                                                                  *)
(***************************************************************************)
VARIABLES
    prompt,           \* the receiver: configuration and selectedChoice(s)
    term,             \* what the terminal reports
    rendersLeft,      \* Render invocations the caller still makes
    pc,               \* "idle" | "listen" | "done"
    interrupted,
    searchQuery,
    searchMode,
    filteredChoices,
    pageSize,
    cursorIdx,
    startIdx,
    endIdx,
    valMessage,
    minRequired,
    maxAllowed,
    stdOutput,        \* what this Render wrote to the terminal, in order
    redraws,          \* calls of redraw since the last key event was read
    ret,              \* what Render returned: [value, err]
    widget,           \* the Spinner or Progress: kind, label, frames, steps
    current,          \* pr.current
    stop,             \* sp.stop, pr.stop
    wg,               \* the WaitGroup's counter: render loops that have not returned
    loops,            \* the render loop of each Start: position, frame index, writes
    startsLeft,       \* calls of Start the caller still makes
    callerPc,         \* the caller of Start and Stop: "idle" | "started" | "waiting" | "stopped"
    sig,              \* the goroutine waiting for a signal: "none" | "armed" | "stopping" | "exited"
    proc,             \* the process: "running" | "exited" | "crashed"
    mu,               \* pr.mu: "free" or its holder
    incs,             \* the callers of Increment: position and calls left
    shown,            \* what the last frame of the Spinner or Progress showed
    input,            \* the textInput or SecureInput: kind, validator
    inBuf,
    cursorPos,
    receivedInput

vars == <<prompt, term, rendersLeft, pc, interrupted, searchQuery, searchMode,
          filteredChoices, pageSize, cursorIdx, startIdx, endIdx, valMessage,
          minRequired, maxAllowed, stdOutput, redraws, ret,
          widget, current, stop, wg, loops, startsLeft, callerPc, sig, proc, mu, incs, shown,
          input, inBuf, cursorPos, receivedInput>>

\* The state of the Spinner or Progress and of its goroutines; the state of
\* a text input's session.
widgetVars == <<widget, current, stop, wg, loops, startsLeft, callerPc, sig, proc, mu, incs, shown>>
inputVars == <<input, inBuf, cursorPos, receivedInput>>

session == <<interrupted, searchQuery, searchMode, filteredChoices, pageSize,
             cursorIdx, startIdx, endIdx, valMessage, minRequired, maxAllowed>>

NoRet == [value |-> <<>>, err |-> "none"]

(***************************************************************************)
(* Terminal output.  stdOutput lists the writes of one Render invocation:  *)
(* "makeSpace" (the blank lines and the cursor-up of makeSpace), "acquire" *)
(* (ansiHideCursor + ansiSaveCursor), "frame" (one redraw) and "restore"   *)
(* (resetState).  A run of frames is listed as one "frame": how many       *)
(* frames a session draws is not recorded, their place among the other     *)
(* writes is.                                                              *)
(***************************************************************************)
\* redraw(cursorIdx, startIdx, endIdx)
redraw(out) ==
    IF Len(out) > 0 /\ out[Len(out)] = "frame" THEN out ELSE Append(out, "frame")

\* resetState(), deferred to the return of Render.
resetState(out) == Append(out, "restore")

\* makeSpace(lines) = nil: the blank lines and the cursor-up.
makeSpace(out) == Append(out, "makeSpace")

\* stdOutput.Write(ansiHideCursor + ansiSaveCursor)
saveState(out) == Append(out, "acquire")

(***************************************************************************)
(* The closures of Render.  The cursor and the window travel together as   *)
(* a record w = [cursorIdx, startIdx, endIdx]; n is len(filteredChoices)   *)
(* and ps the session's pageSize.                                          *)
(***************************************************************************)
\* Mutant: the labels are compared as written, only the query is lower-cased.
filterChoicesLabelAsWritten(p, query) ==
    IF query = <<>> THEN p.choices
    ELSE SelectSeq(p.choices, LAMBDA c : Contains(c.Label, ToLower(query)))

\* Filter choices based on the search query.
filterChoices(p, query) ==
    IF query = <<>> THEN p.choices
    ELSE SelectSeq(p.choices, LAMBDA c : Contains(ToLower(c.Label), ToLower(query)))

\* Mutant: the cursor is not brought back into the shorter list.
resetCursorAfterFilterNoClamp(w, n, ps) ==
    IF n = 0 THEN [cursorIdx |-> 0, startIdx |-> 0, endIdx |-> 0]
    ELSE LET cur == w.cursorIdx
             s1  == IF cur < w.startIdx THEN cur ELSE w.startIdx
             s2  == IF cur >= s1 + ps THEN max(0, cur - ps + 1) ELSE s1
         IN  [cursorIdx |-> cur, startIdx |-> s2, endIdx |-> min(s2 + ps, n)]

\* Reset cursor position after filtering.
resetCursorAfterFilter(w, n, ps) ==
    IF n = 0 THEN [cursorIdx |-> 0, startIdx |-> 0, endIdx |-> 0]
    ELSE LET cur == IF w.cursorIdx >= n THEN n - 1 ELSE w.cursorIdx
             s1  == IF cur < w.startIdx THEN cur ELSE w.startIdx
             s2  == IF cur >= s1 + ps THEN max(0, cur - ps + 1) ELSE s1
         IN  [cursorIdx |-> cur, startIdx |-> s2, endIdx |-> min(s2 + ps, n)]

\* Navigate choices up based on the cursor position.
navigateUp(w, n, ps) ==
    IF w.cursorIdx > 0
    THEN LET cur == w.cursorIdx - 1
         IN  IF cur < w.startIdx
             THEN [cursorIdx |-> cur, startIdx |-> cur, endIdx |-> min(cur + ps, n)]
             ELSE [w EXCEPT !.cursorIdx = cur]
    ELSE w

\* Navigate choices down based on the cursor position.
\* Mutant: the cursor may step onto the place after the last choice.
navigateDownPastEnd(w, n, ps) ==
    IF w.cursorIdx < n
    THEN LET cur == w.cursorIdx + 1
         IN  IF cur >= w.endIdx
             THEN [cursorIdx |-> cur, startIdx |-> max(0, cur + 1 - ps), endIdx |-> cur + 1]
             ELSE [w EXCEPT !.cursorIdx = cur]
    ELSE w

navigateDown(w, n, ps) ==
    IF w.cursorIdx < n - 1
    THEN LET cur == w.cursorIdx + 1
         IN  IF cur >= w.endIdx
             THEN [cursorIdx |-> cur, startIdx |-> max(0, cur + 1 - ps), endIdx |-> cur + 1]
             ELSE [w EXCEPT !.cursorIdx = cur]
    ELSE w

\* multiSelect: check if a choice is selected (by value).
isSelected(sel, choice) == \E i \in 1..Len(sel) : sel[i].Value = choice.Value

\* The sequence s without its element at position i.
RemoveAt(s, i) == SubSeq(s, 1, i - 1) \o SubSeq(s, i + 1, Len(s))

\* multiSelect: toggle selection state of a choice; the new selectedChoices.
toggleSelection(p, choice) ==
    LET sel == p.selectedChoices IN
    IF isSelected(sel, choice)
    THEN RemoveAt(sel, CHOOSE i \in 1..Len(sel) :
                          /\ sel[i].Value = choice.Value
                          /\ \A j \in 1..(i - 1) : sel[j].Value # choice.Value)
    ELSE IF p.maxSelectedCount = 0 \/ Len(sel) < p.maxSelectedCount
         THEN Append(sel, choice)
         ELSE sel

(***************************************************************************)
(* Session start: the part of Render before the keyboard loop.             *)
(***************************************************************************)
\* Mutant: the minimum is the configured one, optional or not.
msMinRequiredIgnoresOptional(p) == max(p.minSelectedCount, 0)

\* multiSelect: minRequired and maxAllowed as Render derives them.
msMinRequired(p) ==
    LET m == max(p.minSelectedCount, 0) IN IF ~p.optional /\ m = 0 THEN 1 ELSE m
msMaxAllowed(p) ==
    LET m == max(p.maxSelectedCount, 0) IN IF m = 0 THEN Len(p.choices) ELSE m

\* The entry checks, in the order Render makes them; "nil" when all pass.
EntryError(p, t, ps) ==
    IF makeSpaceFails(t, 9 + ps) THEN "ErrTerminalTooSmall"
    ELSE IF Len(p.choices) = 0 THEN "ErrNoSelectionChoices"
    ELSE IF p.kind = "multi" /\ msMinRequired(p) > msMaxAllowed(p)
         THEN "ErrInvalidSelectionCount"
    ELSE "nil"

\* Initialize the selected choice(s) with the default choice(s).
ssApplyDefault(p) ==
    IF p.defaultChoice >= 0 /\ p.defaultChoice < Len(p.choices)
    THEN [p EXCEPT !.selectedChoice = p.choices[p.defaultChoice + 1]]
    ELSE p
msApplyDefaults(p) ==
    IF Len(p.defaultChoices) > 0
    THEN LET valid == SelectSeq(p.defaultChoices, LAMBDA d : d >= 0 /\ d < Len(p.choices))
         IN  [p EXCEPT !.selectedChoices = [i \in 1..Len(valid) |-> p.choices[valid[i] + 1]]]
    ELSE p

\* The empty result Render returns next to an error.
EmptyResult(p) == IF p.kind = "single" THEN ZeroChoice ELSE <<>>
\* The result Render returns next to a nil error.
Selection(p) == IF p.kind = "single" THEN p.selectedChoice ELSE p.selectedChoices

Render ==
    /\ pc \in {"idle", "done"}
    /\ rendersLeft > 0
    /\ rendersLeft' = rendersLeft - 1
    /\ LET ps == min(prompt.pageSize, Len(prompt.choices))
           e  == EntryError(prompt, term, ps)
       IN  /\ interrupted' = FALSE
           /\ searchQuery' = <<>>
           /\ searchMode' = FALSE
           /\ filteredChoices' = prompt.choices
           /\ pageSize' = ps
           /\ cursorIdx' = 0
           /\ startIdx' = 0
           /\ endIdx' = min(Len(prompt.choices), ps)
           /\ valMessage' = <<>>
           /\ minRequired' = IF prompt.kind = "multi" THEN msMinRequired(prompt) ELSE 0
           /\ maxAllowed' = IF prompt.kind = "multi" THEN msMaxAllowed(prompt) ELSE 0
           /\ IF e # "nil"
              THEN /\ pc' = "done"
                   /\ ret' = [value |-> EmptyResult(prompt), err |-> e]
                   /\ stdOutput' = IF e = "ErrTerminalTooSmall" THEN <<>> ELSE makeSpace(<<>>)
                   /\ redraws' = 0
                   /\ UNCHANGED prompt
              ELSE /\ pc' = "listen"
                   /\ ret' = NoRet
                   /\ stdOutput' = redraw(saveState(makeSpace(<<>>)))
                   /\ redraws' = 1
                   /\ prompt' = IF prompt.kind = "single" THEN ssApplyDefault(prompt)
                                ELSE msApplyDefaults(prompt)
    /\ UNCHANGED <<widgetVars, inputVars, term>>

(***************************************************************************)
(* The keyboard loop: one action per case of the key handler.  Every case  *)
(* that does not stop the loop falls through to redraw and waits for the   *)
(* next key.                                                               *)
(***************************************************************************)
\* Printable characters a user types: letters of the labels in both cases,
\* and the four letters that also navigate.
AllRunes == {"a", "N", "h", "l", "j", "k"}

Window == [cursorIdx |-> cursorIdx, startIdx |-> startIdx, endIdx |-> endIdx]
SetWindow(w) ==
    /\ cursorIdx' = w.cursorIdx
    /\ startIdx' = w.startIdx
    /\ endIdx' = w.endIdx
\* Mutant: a move of the cursor clears the message of the last refusal.
NavigateClearsMessage(w) ==
    /\ SetWindow(w)
    /\ valMessage' = <<>>
    /\ UNCHANGED <<prompt, interrupted, searchQuery, searchMode, filteredChoices>>

Navigate(w) ==
    /\ SetWindow(w)
    /\ UNCHANGED <<prompt, interrupted, searchQuery, searchMode, filteredChoices, valMessage>>

\* The loop goes on with a redraw: pageSize, minRequired and maxAllowed are
\* never assigned in it.
Continue ==
    /\ stdOutput' = redraw(stdOutput)
    /\ redraws' = 1
    /\ UNCHANGED <<widgetVars, inputVars, term, rendersLeft, pc, pageSize, minRequired, maxAllowed, ret>>

\* Mutant: the error of the keyboard source is tested after the interrupt flag
\* and reported as an interrupt of its own.
AfterListenErrorAsInterrupt(p, err, intr) ==
    IF intr \/ err # "nil" THEN [value |-> EmptyResult(p), err |-> "ErrInterrupted"]
    ELSE [value |-> Selection(p), err |-> "nil"]

\* Mutant: an interrupted session returns what was selected so far.
AfterListenInterruptKeepsSelection(p, err, intr) ==
    IF err # "nil" THEN [value |-> EmptyResult(p), err |-> err]
    ELSE IF intr THEN [value |-> Selection(p), err |-> "ErrInterrupted"]
    ELSE [value |-> Selection(p), err |-> "nil"]

\* What Render returns once keyboard.Listen returned err: handle errors,
\* handle interrupts, return the selection.
AfterListen(p, err, intr) ==
    IF err # "nil" THEN [value |-> EmptyResult(p), err |-> err]
    ELSE IF intr THEN [value |-> EmptyResult(p), err |-> "ErrInterrupted"]
    ELSE [value |-> Selection(p), err |-> "nil"]

\* Mutant: the terminal is restored only when Render returns without error.
ReturnRestoresOnSuccessOnly(value, err) ==
    /\ pc' = "done"
    /\ ret' = [value |-> value, err |-> err]
    /\ stdOutput' = IF err = "nil" THEN resetState(stdOutput) ELSE stdOutput
    /\ redraws' = 0
    /\ searchQuery' = <<>>
    /\ searchMode' = FALSE
    /\ filteredChoices' = <<>>
    /\ cursorIdx' = 0
    /\ startIdx' = 0
    /\ endIdx' = 0
    /\ valMessage' = <<>>
    /\ UNCHANGED <<widgetVars, inputVars, term, rendersLeft, pageSize, minRequired, maxAllowed>>

\* The loop stops and Render returns: the deferred resetState runs and the
\* session's working variables are gone.
Return(value, err) ==
    /\ pc' = "done"
    /\ ret' = [value |-> value, err |-> err]
    /\ stdOutput' = resetState(stdOutput)
    /\ redraws' = 0
    /\ searchQuery' = <<>>
    /\ searchMode' = FALSE
    /\ filteredChoices' = <<>>
    /\ cursorIdx' = 0
    /\ startIdx' = 0
    /\ endIdx' = 0
    /\ valMessage' = <<>>
    /\ UNCHANGED <<widgetVars, inputVars, term, rendersLeft, pageSize, minRequired, maxAllowed>>
\* Render returns r = [value, err].
Returns(r) == Return(r.value, r.err)
\* What a case of the handler that only sets the message leaves alone.
OnlyMessage ==
    UNCHANGED <<prompt, interrupted, searchQuery, searchMode, filteredChoices,
                cursorIdx, startIdx, endIdx>>

\* The query changed: filter again and reset the cursor.
Refilter(query) ==
    /\ searchQuery' = query
    /\ filteredChoices' = filterChoices(prompt, query)
    /\ SetWindow(resetCursorAfterFilter(Window, Len(filterChoices(prompt, query)), pageSize))
    /\ UNCHANGED <<prompt, interrupted, searchMode, valMessage>>

AtLeastMessage(n) == <<"At least ", Itoa(n), " choices must be selected">>
AtMostMessage(n) == <<"Cannot select more than ", Itoa(n), " choices">>

\* singleSelect, case keys.Space: the receiver and the message it leaves, for the
\* filtered list fc and the cursor at cur.
ssSpace(p, fc, cur) ==
    IF Len(fc) = 0
    THEN [prompt |-> p, valMessage |-> <<"No choices available">>]
    ELSE LET currentChoice == fc[cur + 1] IN
         IF currentChoice.Disabled
         THEN [prompt |-> p, valMessage |-> <<"Cannot select a disabled choice">>]
         ELSE [prompt |-> [p EXCEPT !.selectedChoice =
                              IF p.selectedChoice.Value = currentChoice.Value
                              THEN ZeroChoice ELSE currentChoice],
               valMessage |-> <<>>]

\* Mutant: a disabled choice that is selected can be toggled off.
msSpaceDeselectsDisabled(p, fc, cur, minR, maxA) ==
    IF Len(fc) = 0
    THEN [prompt |-> p, valMessage |-> <<"No choices available">>]
    ELSE LET currentChoice == fc[cur + 1]
             toggled == toggleSelection(p, currentChoice)
         IN
         IF currentChoice.Disabled /\ ~isSelected(p.selectedChoices, currentChoice)
         THEN [prompt |-> p, valMessage |-> <<"Cannot select a disabled choice">>]
         ELSE IF ~isSelected(p.selectedChoices, currentChoice) /\ Len(p.selectedChoices) >= maxA
         THEN [prompt |-> p, valMessage |-> AtMostMessage(maxA)]
         ELSE [prompt |-> [p EXCEPT !.selectedChoices = toggled],
               valMessage |-> IF Len(toggled) < minR THEN AtLeastMessage(minR) ELSE <<>>]

\* Mutant: the limit is tested with > in place of >=.
msSpaceMaxOffByOne(p, fc, cur, minR, maxA) ==
    IF Len(fc) = 0
    THEN [prompt |-> p, valMessage |-> <<"No choices available">>]
    ELSE LET currentChoice == fc[cur + 1]
             toggled == toggleSelection(p, currentChoice)
         IN
         IF currentChoice.Disabled
         THEN [prompt |-> p, valMessage |-> <<"Cannot select a disabled choice">>]
         ELSE IF ~isSelected(p.selectedChoices, currentChoice) /\ Len(p.selectedChoices) > maxA
         THEN [prompt |-> p, valMessage |-> AtMostMessage(maxA)]
         ELSE [prompt |-> [p EXCEPT !.selectedChoices = toggled],
               valMessage |-> IF Len(toggled) < minR THEN AtLeastMessage(minR) ELSE <<>>]

\* Mutant: an accepted toggle clears the message, as single-select's does.
msSpaceClearsMessage(p, fc, cur, minR, maxA) ==
    IF Len(fc) = 0
    THEN [prompt |-> p, valMessage |-> <<"No choices available">>]
    ELSE LET currentChoice == fc[cur + 1]
             toggled == toggleSelection(p, currentChoice)
         IN
         IF currentChoice.Disabled
         THEN [prompt |-> p, valMessage |-> <<"Cannot select a disabled choice">>]
         ELSE IF ~isSelected(p.selectedChoices, currentChoice) /\ Len(p.selectedChoices) >= maxA
         THEN [prompt |-> p, valMessage |-> AtMostMessage(maxA)]
         ELSE [prompt |-> [p EXCEPT !.selectedChoices = toggled], valMessage |-> <<>>]

\* multiSelect, case keys.Space.
msSpace(p, fc, cur, minR, maxA) ==
    IF Len(fc) = 0
    THEN [prompt |-> p, valMessage |-> <<"No choices available">>]
    ELSE LET currentChoice == fc[cur + 1]
             toggled == toggleSelection(p, currentChoice)
         IN
         IF currentChoice.Disabled
         THEN [prompt |-> p, valMessage |-> <<"Cannot select a disabled choice">>]
         ELSE IF ~isSelected(p.selectedChoices, currentChoice) /\ Len(p.selectedChoices) >= maxA
         THEN [prompt |-> p, valMessage |-> AtMostMessage(maxA)]
         ELSE [prompt |-> [p EXCEPT !.selectedChoices = toggled],
               valMessage |-> IF Len(toggled) < minR THEN AtLeastMessage(minR) ELSE <<>>]

KeyCtrlC ==
    /\ pc = "listen"
    /\ interrupted' = TRUE
    /\ Returns(AfterListen(prompt, "nil", TRUE))
    /\ UNCHANGED prompt

KeyUp ==
    /\ pc = "listen"
    /\ Continue
    /\ Navigate(navigateUp(Window, Len(filteredChoices), pageSize))

KeyDown ==
    /\ pc = "listen"
    /\ Continue
    /\ Navigate(navigateDown(Window, Len(filteredChoices), pageSize))

\* keys.Left shares the case of keys.Up, keys.Right that of keys.Down.
KeyLeft ==
    /\ pc = "listen"
    /\ Continue
    /\ Navigate(navigateUp(Window, Len(filteredChoices), pageSize))

KeyRight ==
    /\ pc = "listen"
    /\ Continue
    /\ Navigate(navigateDown(Window, Len(filteredChoices), pageSize))

KeyTab ==
    /\ pc = "listen"
    /\ Continue
    /\ searchMode' = ~searchMode
    /\ UNCHANGED <<prompt, interrupted, searchQuery, filteredChoices,
                   cursorIdx, startIdx, endIdx, valMessage>>

\* Mutant: Escape leaves search mode and drops the query with it.
KeyEscapeClearsQuery ==
    /\ pc = "listen"
    /\ Continue
    /\ searchMode' = FALSE
    /\ searchQuery' = <<>>
    /\ filteredChoices' = filterChoices(prompt, <<>>)
    /\ SetWindow(resetCursorAfterFilter(Window, Len(filterChoices(prompt, <<>>)), pageSize))
    /\ UNCHANGED <<prompt, interrupted, valMessage>>

KeyEscape ==
    /\ pc = "listen"
    /\ Continue
    /\ searchMode' = IF searchMode THEN FALSE ELSE searchMode
    /\ UNCHANGED <<prompt, interrupted, searchQuery, filteredChoices,
                   cursorIdx, startIdx, endIdx, valMessage>>

\* Mutant: a confirm is accepted whether or not something is selected.
ssKeyEnterAlwaysConfirms ==
    /\ pc = "listen"
    /\ prompt.kind = "single"
    /\ Returns(AfterListen(prompt, "nil", interrupted))
    /\ UNCHANGED <<prompt, interrupted>>

\* Mutant: the optional flag is not looked at.
ssKeyEnterOptionalIgnored ==
    /\ pc = "listen"
    /\ prompt.kind = "single"
    /\ IF Len(filteredChoices) = 0 \/ prompt.selectedChoice = ZeroChoice
       THEN /\ Continue
            /\ valMessage' = <<"No selection made (required)">>
            /\ OnlyMessage
       ELSE Returns(AfterListen(prompt, "nil", interrupted)) /\ UNCHANGED <<prompt, interrupted>>

ssKeyEnter ==
    /\ pc = "listen"
    /\ prompt.kind = "single"
    /\ IF Len(filteredChoices) = 0 \/ prompt.selectedChoice = ZeroChoice
       THEN IF prompt.optional
            THEN Returns(AfterListen(prompt, "nil", interrupted))
                 /\ UNCHANGED <<prompt, interrupted>>
            ELSE /\ Continue
                 /\ valMessage' = <<"No selection made (required)">>
                 /\ OnlyMessage
       ELSE Returns(AfterListen(prompt, "nil", interrupted)) /\ UNCHANGED <<prompt, interrupted>>

\* Mutant: the count is tested against the configured minimum, not minRequired.
msKeyEnterConfiguredMin ==
    /\ pc = "listen"
    /\ prompt.kind = "multi"
    /\ IF Len(prompt.selectedChoices) < prompt.minSelectedCount
       THEN /\ Continue
            /\ valMessage' = AtLeastMessage(minRequired)
            /\ OnlyMessage
       ELSE Return(prompt.selectedChoices, "nil") /\ UNCHANGED <<prompt, interrupted>>

msKeyEnter ==
    /\ pc = "listen"
    /\ prompt.kind = "multi"
    /\ IF Len(prompt.selectedChoices) < minRequired
       THEN /\ Continue
            /\ valMessage' = AtLeastMessage(minRequired)
            /\ OnlyMessage
       ELSE Returns(AfterListen(prompt, "nil", interrupted)) /\ UNCHANGED <<prompt, interrupted>>

ssKeySpace ==
    /\ pc = "listen"
    /\ prompt.kind = "single"
    /\ Continue
    /\ prompt' = ssSpace(prompt, filteredChoices, cursorIdx).prompt
    /\ valMessage' = ssSpace(prompt, filteredChoices, cursorIdx).valMessage
    /\ UNCHANGED <<interrupted, searchQuery, searchMode, filteredChoices,
                   cursorIdx, startIdx, endIdx>>

msKeySpace ==
    /\ pc = "listen"
    /\ prompt.kind = "multi"
    /\ Continue
    /\ prompt' = msSpace(prompt, filteredChoices, cursorIdx, minRequired, maxAllowed).prompt
    /\ valMessage' =
           msSpace(prompt, filteredChoices, cursorIdx, minRequired, maxAllowed).valMessage
    /\ UNCHANGED <<interrupted, searchQuery, searchMode, filteredChoices,
                   cursorIdx, startIdx, endIdx>>

\* Mutant: the last character is cut, but an emptied query is not filtered again.
KeyBackspaceKeepsListOnEmpty ==
    /\ pc = "listen"
    /\ Continue
    /\ IF searchMode /\ Len(searchQuery) > 1
       THEN Refilter(SubSeq(searchQuery, 1, Len(searchQuery) - 1))
       ELSE IF searchMode /\ Len(searchQuery) = 1
       THEN /\ searchQuery' = <<>>
            /\ UNCHANGED <<prompt, interrupted, searchMode, filteredChoices,
                           cursorIdx, startIdx, endIdx, valMessage>>
       ELSE UNCHANGED <<prompt, interrupted, searchQuery, searchMode, filteredChoices,
                        cursorIdx, startIdx, endIdx, valMessage>>

KeyBackspace ==
    /\ pc = "listen"
    /\ Continue
    /\ IF searchMode /\ Len(searchQuery) > 0
       THEN Refilter(SubSeq(searchQuery, 1, Len(searchQuery) - 1))
       ELSE UNCHANGED <<prompt, interrupted, searchQuery, searchMode, filteredChoices,
                        cursorIdx, startIdx, endIdx, valMessage>>

\* Mutant: only j and k navigate.
KeyRuneWithJKOnly(runes) ==
    /\ pc = "listen"
    /\ Continue
    /\ IF Len(runes) = 0
       THEN UNCHANGED <<prompt, interrupted, searchQuery, searchMode, filteredChoices,
                        cursorIdx, startIdx, endIdx, valMessage>>
       ELSE LET keyPressed == String(runes[1]) IN
            IF searchMode
            THEN /\ Len(searchQuery) + Len(keyPressed) <= MaxQuery
                 /\ Refilter(searchQuery \o keyPressed)
            ELSE IF keyPressed \in {<<"j">>}
                 THEN Navigate(navigateDown(Window, Len(filteredChoices), pageSize))
            ELSE IF keyPressed \in {<<"k">>}
                 THEN Navigate(navigateUp(Window, Len(filteredChoices), pageSize))
            ELSE UNCHANGED <<prompt, interrupted, searchQuery, searchMode,
                             filteredChoices, cursorIdx, startIdx, endIdx, valMessage>>

\* Mutant: while searching, the letters that navigate move the cursor and
\* are not added to the query.
KeyRuneWithViFirst(runes) ==
    /\ pc = "listen"
    /\ Continue
    /\ IF Len(runes) = 0
       THEN UNCHANGED <<prompt, interrupted, searchQuery, searchMode, filteredChoices,
                        cursorIdx, startIdx, endIdx, valMessage>>
       ELSE LET keyPressed == String(runes[1]) IN
            IF keyPressed \in {<<"j">>, <<"l">>}
            THEN Navigate(navigateDown(Window, Len(filteredChoices), pageSize))
            ELSE IF keyPressed \in {<<"k">>, <<"h">>}
            THEN Navigate(navigateUp(Window, Len(filteredChoices), pageSize))
            ELSE IF searchMode
                 THEN /\ Len(searchQuery) + Len(keyPressed) <= MaxQuery
                      /\ Refilter(searchQuery \o keyPressed)
            ELSE UNCHANGED <<prompt, interrupted, searchQuery, searchMode,
                             filteredChoices, cursorIdx, startIdx, endIdx, valMessage>>

\* case keys.RuneKey with key.Runes = runes.
KeyRuneWith(runes) ==
    /\ pc = "listen"
    /\ Continue
    /\ IF Len(runes) = 0
       THEN UNCHANGED <<prompt, interrupted, searchQuery, searchMode, filteredChoices,
                        cursorIdx, startIdx, endIdx, valMessage>>
       ELSE LET keyPressed == String(runes[1]) IN
            IF searchMode
            THEN /\ Len(searchQuery) + Len(keyPressed) <= MaxQuery
                 /\ Refilter(searchQuery \o keyPressed)
            ELSE IF keyPressed \in {<<"j">>, <<"l">>}
                 THEN Navigate(navigateDown(Window, Len(filteredChoices), pageSize))
            ELSE IF keyPressed \in {<<"k">>, <<"h">>}
                 THEN Navigate(navigateUp(Window, Len(filteredChoices), pageSize))
            ELSE UNCHANGED <<prompt, interrupted, searchQuery, searchMode,
                             filteredChoices, cursorIdx, startIdx, endIdx, valMessage>>

\* typed: the printable characters this session's user types.
KeyRune(typed) == \E runes \in {<<>>} \cup {<<r>> : r \in typed} : KeyRuneWith(runes)

\* Mutant: a key code without a case returns before the redraw.
KeyOtherWithoutRedraw ==
    /\ pc = "listen"
    /\ redraws' = 0
    /\ UNCHANGED <<widgetVars, inputVars, term, rendersLeft, pc, pageSize, minRequired, maxAllowed, ret, stdOutput,
                   prompt, interrupted, searchQuery, searchMode, filteredChoices,
                   cursorIdx, startIdx, endIdx, valMessage>>

\* A key code the handler has no case for.
KeyOther ==
    /\ pc = "listen"
    /\ Continue
    /\ UNCHANGED <<prompt, interrupted, searchQuery, searchMode, filteredChoices,
                   cursorIdx, startIdx, endIdx, valMessage>>

\* Errors of the keyboard source; Render does not look into them.
ListenErrors == {"errKeyboard", "errInput"}

\* keyboard.Listen returns the error err of its own in place of the next key.
ListenErrorWith(err) ==
    /\ pc = "listen"
    /\ Returns(AfterListen(prompt, err, interrupted))
    /\ UNCHANGED <<prompt, interrupted>>

ListenError == \E err \in ListenErrors : ListenErrorWith(err)

Next(typed) ==
    \/ Render
    \/ KeyCtrlC
    \/ KeyUp
    \/ KeyDown
    \/ KeyLeft
    \/ KeyRight
    \/ KeyTab
    \/ KeyEscape
    \/ ssKeyEnter
    \/ msKeyEnter
    \/ ssKeySpace
    \/ msKeySpace
    \/ KeyBackspace
    \/ KeyRune(typed)
    \/ KeyOther
    \/ ListenError

(***************************************************************************)
(* Initial states: a configured prompt on which Render was not yet called. *)
(***************************************************************************)
TermOK == [width |-> 80, height |-> 24, err |-> FALSE]
TermNarrow == [width |-> 49, height |-> 24, err |-> FALSE]
TermShort == [width |-> 80, height |-> 11, err |-> FALSE]
TermUnknown == [width |-> 0, height |-> 0, err |-> TRUE]
TermNoWidth == [width |-> 0, height |-> 24, err |-> FALSE]

\* No Spinner or Progress was made, and no text input.
NoWidget ==
    /\ widget = [kind |-> "none"]
    /\ current = 0
    /\ stop = FALSE
    /\ wg = 0
    /\ loops = <<>>
    /\ startsLeft = 0
    /\ callerPc = "idle"
    /\ sig = "none"
    /\ proc = "running"
    /\ mu = "free"
    /\ incs = <<>>
    /\ shown = <<>>
NoInput ==
    /\ input = [kind |-> "none"]
    /\ inBuf = <<>>
    /\ cursorPos = 0
    /\ receivedInput = FALSE

InitWith(prompts, terms, renders) ==
    /\ NoWidget
    /\ NoInput
    /\ prompt \in prompts
    /\ term \in terms
    /\ rendersLeft = renders
    /\ stdOutput = <<>>
    /\ redraws = 0
    /\ pc = "idle"
    /\ interrupted = FALSE
    /\ searchQuery = <<>>
    /\ searchMode = FALSE
    /\ filteredChoices = <<>>
    /\ pageSize = 0
    /\ cursorIdx = 0
    /\ startIdx = 0
    /\ endIdx = 0
    /\ valMessage = <<>>
    /\ minRequired = 0
    /\ maxAllowed = 0
    /\ ret = NoRet

\* Either p as it is or p with one of the calls made on it.
Maybe(p, called) == {p} \cup called

\* Paging: every list length against every page size, defaults left alone.
NavPrompts ==
    { q \in UNION { Maybe(WithChoices(new, Fruits(n)),
                          { WithPageSize(WithChoices(new, Fruits(n)), ps) :
                                ps \in (-1)..MaxChoices }) :
                    new \in {NewSingleSelect, NewMultiSelect}, n \in 0..MaxChoices } : TRUE }

InitNav == InitWith(NavPrompts, {TermOK, TermNarrow}, 1)
SpecNav == InitNav /\ [][Next(AllRunes)]_vars

\* Selection: defaults, optional and the selection counts against lists with a
\* disabled choice; the page holds the whole list.  The user types one letter
\* with hits and one that also navigates.
SelRunes == {"a", "h"}

ssSelPrompts ==
    UNION { Maybe(p, {Optional(p)}) :
            p \in UNION { Maybe(WithChoices(NewSingleSelect, ch),
                                { ssWithDefaultChoice(WithChoices(NewSingleSelect, ch), idx) :
                                      idx \in {-1, 0, 1, MaxChoices} }) :
                          ch \in {Fruits(MaxChoices), FruitsBlank(MaxChoices)} } }

\* Default index lists: none, one enabled, one disabled, two, a repeat, out of range.
msDefaultLists == {<<>>, <<0>>, <<1>>, <<0, 2>>, <<0, 0>>, <<-1, MaxChoices + 1>>}

msSelPrompts ==
    UNION { Maybe(p, {Optional(p)}) :
            p \in { WithMaxSelectedCount(
                        WithMinSelectedCount(
                            msWithDefaultChoice(
                                WithChoices(NewMultiSelect, Fruits(MaxChoices + 1)), idxs),
                            lo),
                        hi) :
                    idxs \in msDefaultLists, lo \in {0, 2}, hi \in {0, 1, 2} } }

InitSel == InitWith(ssSelPrompts \cup msSelPrompts, {TermOK}, 1)
SpecSel == InitSel /\ [][Next(SelRunes)]_vars

\* Entry checks: every list length and page size on every terminal, and
\* multi-select with selection counts that fit the list or do not.
EntryRunes == {"a"}

msCountPrompts ==
    UNION { Maybe(p, {Optional(p)}) :
            p \in { WithMaxSelectedCount(
                        WithMinSelectedCount(WithChoices(NewMultiSelect, Fruits(n)), lo), hi) :
                    n \in 0..MaxChoices, lo \in {0, 2}, hi \in {0, 1} } }

InitEntry == InitWith(NavPrompts \cup msCountPrompts,
                      {TermOK, TermNarrow, TermShort, TermUnknown, TermNoWidth}, 1)
SpecEntry == InitEntry /\ [][Next(EntryRunes)]_vars

\* Keys and modes: the letters that navigate and one more letter, typed in
\* and out of search mode, over lists longer than, as long as and shorter
\* than the page.
KeysRunes == {"a", "h", "j", "k", "l"}

KeysPrompts ==
    UNION { Maybe(WithChoices(new, Fruits(MaxChoices)),
                  { WithPageSize(WithChoices(new, Fruits(MaxChoices)), ps) : ps \in {1, 2} }) :
            new \in {NewSingleSelect, Optional(NewMultiSelect)} }

InitKeys == InitWith(KeysPrompts, {TermOK}, 1)
SpecKeys == InitKeys /\ [][Next(KeysRunes)]_vars

\* Queries of more than one byte per character: a letter of one byte and a
\* letter of two are typed and erased over a list with a label that has both.
BytesRunes == {"a", "U+00E9"}

BytesPrompts ==
    { WithChoices(new, CafeChoices) : new \in {NewSingleSelect, Optional(NewMultiSelect)} }

InitBytes == InitWith(BytesPrompts, {TermOK}, 1)
SpecBytes == InitBytes /\ [][Next(BytesRunes)]_vars

\* Render called twice on one prompt object: with and without defaults.
AgainRunes == {"a"}

AgainPrompts ==
    UNION { Maybe(p, {Optional(p)}) :
            p \in { WithChoices(NewSingleSelect, Fruits(MaxChoices)),
                    ssWithDefaultChoice(WithChoices(NewSingleSelect, Fruits(MaxChoices)), 0),
                    WithChoices(NewMultiSelect, Fruits(MaxChoices)),
                    msWithDefaultChoice(WithChoices(NewMultiSelect, Fruits(MaxChoices)), <<2>>),
                    msWithDefaultChoice(WithChoices(NewMultiSelect, Fruits(MaxChoices)),
                                        <<MaxChoices>>) } }

InitAgain == InitWith(AgainPrompts, {TermOK}, 2)
SpecAgain == InitAgain /\ [][Next(AgainRunes)]_vars

(***************************************************************************)
(* Spinner and Progress: Start, the render loop it startsLeft, Stop, Increment *)
(* and the goroutine that waits for an interrupt signal.                   *)
(***************************************************************************)
MaxSteps == 2
MaxStarts == 2

NewSpinner == [kind |-> "spinner", label |-> "Loading...", frames |-> <<"[1] ", "[2] ">>, steps |-> 0]
NewProgress == [kind |-> "progress", label |-> "Activity in progress", frames |-> <<>>, steps |-> 0]
WithFrames(w, frames) == [w EXCEPT !.frames = frames]
WithLabel(w, txt) == [w EXCEPT !.label = txt]
WithSteps(w, steps) == [w EXCEPT !.steps = max(0, steps)]

\* The goroutines that call Increment.
Workers == {"w1", "w2"}

\* Start returns at its sanity check: nothing to draw.
NothingToDraw(w) ==
    IF w.kind = "spinner" THEN w.label = "" /\ Len(w.frames) = 0
    ELSE w.steps <= 0 \/ w.label = ""

\* stop is read and written without synchronisation: a read in a render
\* loop may return the value stop had when the loop was started or any value
\* written since.  A write of v becomes one of the values each running loop
\* may read.
Written(ls, v) ==
    [i \in 1..Len(ls) |->
        IF ls[i].pc \in {"none", "exited", "panicked"} THEN ls[i]
        ELSE [ls[i] EXCEPT !.seen = @ \cup {v}]]

NoLoop == [pc |-> "none", seen |-> {}, i |-> 0, restores |-> 0]
NewLoop(v) == [pc |-> "check", seen |-> {v}, i |-> 0, restores |-> 0]

\* The percentage the bar shows: the ratio of current to steps, kept
\* between 0 and 1, times 100 and cut to an integer.
percentOf(cur, steps) == min(max((cur * 100) \div steps, 0), 100)

\* Spinner.Start, Progress.Start.
Start ==
    /\ proc = "running"
    /\ callerPc # "waiting"
    /\ startsLeft > 0
    /\ startsLeft' = startsLeft - 1
    /\ callerPc' = "started"
    /\ IF NothingToDraw(widget)
       THEN /\ loops' = Append(loops, NoLoop)
            /\ UNCHANGED <<stop, wg, sig, stdOutput>>
       ELSE LET v == IF widget.kind = "progress" THEN FALSE ELSE stop
                ls == IF widget.kind = "progress" THEN Written(loops, FALSE) ELSE loops
            IN  /\ stop' = v
                /\ loops' = Append(ls, NewLoop(v))
                /\ wg' = wg + 1
                /\ sig' = IF sig = "none" THEN "armed" ELSE sig
                /\ stdOutput' = saveState(IF makeSpaceFails(term, 4) THEN stdOutput
                                          ELSE makeSpace(stdOutput))
    /\ UNCHANGED <<widget, current, proc, mu, incs, shown>>
    /\ UNCHANGED <<inputVars, prompt, term, rendersLeft, pc, session, redraws, ret>>

\* Stop: stop is set, then the caller waits for the WaitGroup.
StopSet ==
    /\ proc = "running"
    /\ callerPc # "waiting"
    /\ callerPc' = "waiting"
    /\ stop' = TRUE
    /\ loops' = Written(loops, TRUE)
    /\ UNCHANGED <<widget, current, wg, startsLeft, sig, proc, mu, incs, shown>>
    /\ UNCHANGED <<inputVars, prompt, term, rendersLeft, pc, session, stdOutput, redraws, ret>>

\* Mutant: Stop returns without waiting for the render loops.
StopWaitWithoutJoin ==
    /\ proc = "running"
    /\ callerPc = "waiting"
    /\ callerPc' = "stopped"
    /\ UNCHANGED <<widget, current, stop, wg, loops, startsLeft, sig, proc, mu, incs, shown>>
    /\ UNCHANGED <<inputVars, prompt, term, rendersLeft, pc, session, stdOutput, redraws, ret>>

\* wg.Wait() returns and Stop with it.
StopWait ==
    /\ proc = "running"
    /\ callerPc = "waiting"
    /\ wg = 0
    /\ callerPc' = "stopped"
    /\ UNCHANGED <<widget, current, stop, wg, loops, startsLeft, sig, proc, mu, incs, shown>>
    /\ UNCHANGED <<inputVars, prompt, term, rendersLeft, pc, session, stdOutput, redraws, ret>>

\* for !stop: the loop of Start number i tests stop; when it reads true the
\* loop returns, the deferred restore sequence is written and the WaitGroup
\* is told.
LoopCheck(i) ==
    /\ proc = "running"
    /\ i \in 1..Len(loops)
    /\ loops[i].pc = "check"
    /\ \E seen \in loops[i].seen :
          IF seen
          THEN /\ loops' = [loops EXCEPT ![i].pc = "exited", ![i].restores = @ + 1]
               /\ stdOutput' = resetState(stdOutput)
               /\ wg' = wg - 1
          ELSE /\ loops' = [loops EXCEPT ![i].pc =
                               IF widget.kind = "spinner" THEN "draw" ELSE "lock"]
               /\ UNCHANGED <<stdOutput, wg>>
    /\ UNCHANGED <<widget, current, stop, startsLeft, callerPc, sig, proc, mu, incs, shown>>
    /\ UNCHANGED <<inputVars, prompt, term, rendersLeft, pc, session, redraws, ret>>

\* The body of the Spinner's loop: the frame i % len(frames) and the label
\* are written.  Without frames the index panics: the deferred calls run and
\* the process ends.
spLoopDraw(i) ==
    /\ proc = "running"
    /\ i \in 1..Len(loops)
    /\ loops[i].pc = "draw"
    /\ IF Len(widget.frames) = 0
       THEN /\ loops' = [loops EXCEPT ![i].pc = "panicked", ![i].restores = @ + 1]
            /\ stdOutput' = resetState(stdOutput)
            /\ wg' = wg - 1
            /\ proc' = "crashed"
            /\ UNCHANGED shown
       ELSE /\ loops' = [loops EXCEPT ![i].pc = "check",
                                      ![i].i = (@ + 1) % Len(widget.frames)]
            /\ stdOutput' = redraw(stdOutput)
            /\ shown' = <<widget.frames[(loops[i].i % Len(widget.frames)) + 1], widget.label>>
            /\ UNCHANGED <<wg, proc>>
    /\ UNCHANGED <<widget, current, stop, startsLeft, callerPc, sig, mu, incs>>
    /\ UNCHANGED <<inputVars, prompt, term, rendersLeft, pc, session, redraws, ret>>

\* Progress, redraw: pr.mu.Lock().
prRedrawLock(i) ==
    /\ proc = "running"
    /\ i \in 1..Len(loops)
    /\ loops[i].pc = "lock"
    /\ mu = "free"
    /\ mu' = <<"loop", i>>
    /\ loops' = [loops EXCEPT ![i].pc = "redraw"]
    /\ UNCHANGED <<widget, current, stop, wg, startsLeft, callerPc, sig, proc, incs, shown>>
    /\ UNCHANGED <<inputVars, prompt, term, rendersLeft, pc, session, stdOutput, redraws, ret>>

\* Progress, redraw under the lock: the percentage and the bar are written.
prRedraw(i) ==
    /\ proc = "running"
    /\ i \in 1..Len(loops)
    /\ loops[i].pc = "redraw"
    /\ mu = <<"loop", i>>
    /\ mu' = "free"
    /\ loops' = [loops EXCEPT ![i].pc = "check"]
    /\ stdOutput' = redraw(stdOutput)
    /\ shown' = <<percentOf(current, widget.steps), progressTermWidth(term)>>
    /\ UNCHANGED <<widget, current, stop, wg, startsLeft, callerPc, sig, proc, incs>>
    /\ UNCHANGED <<inputVars, prompt, term, rendersLeft, pc, session, redraws, ret>>

\* Progress.Increment: pr.mu.Lock().
IncrementLock(w) ==
    /\ proc = "running"
    /\ widget.kind = "progress"
    /\ incs[w].pc = "idle"
    /\ incs[w].left > 0
    /\ mu = "free"
    /\ mu' = w
    /\ incs' = [incs EXCEPT ![w].pc = "locked"]
    /\ UNCHANGED <<widget, current, stop, wg, loops, startsLeft, callerPc, sig, proc, shown>>
    /\ UNCHANGED <<inputVars, prompt, term, rendersLeft, pc, session, stdOutput, redraws, ret>>

\* Mutant: current is counted up without the test against steps.
incrementedUnbounded(cur, steps) == IF steps <= 0 THEN cur ELSE cur + 1

\* pr.current after the body of Increment.
incremented(cur, steps) ==
    IF steps <= 0 THEN cur
    ELSE IF cur + 1 > steps THEN steps ELSE cur + 1

\* Progress.Increment under the lock, and the deferred Unlock.
Increment(w) ==
    /\ proc = "running"
    /\ incs[w].pc = "locked"
    /\ mu = w
    /\ current' = incremented(current, widget.steps)
    /\ mu' = "free"
    /\ incs' = [incs EXCEPT ![w].pc = "idle", ![w].left = @ - 1]
    /\ UNCHANGED <<widget, stop, wg, loops, startsLeft, callerPc, sig, proc, shown>>
    /\ UNCHANGED <<inputVars, prompt, term, rendersLeft, pc, session, stdOutput, redraws, ret>>

\* An interrupt signal arrives: the goroutine Start left waiting calls Stop.
Signal ==
    /\ proc = "running"
    /\ sig = "armed"
    /\ sig' = "stopping"
    /\ stop' = TRUE
    /\ loops' = Written(loops, TRUE)
    /\ UNCHANGED <<widget, current, wg, startsLeft, callerPc, proc, mu, incs, shown>>
    /\ UNCHANGED <<inputVars, prompt, term, rendersLeft, pc, session, stdOutput, redraws, ret>>

\* Its Stop returns and it ends the process: os.Exit(1).
SignalExit ==
    /\ proc = "running"
    /\ sig = "stopping"
    /\ wg = 0
    /\ sig' = "exited"
    /\ proc' = "exited"
    /\ UNCHANGED <<widget, current, stop, wg, loops, startsLeft, callerPc, mu, incs, shown>>
    /\ UNCHANGED <<inputVars, prompt, term, rendersLeft, pc, session, stdOutput, redraws, ret>>

NextWidget ==
    \/ Start
    \/ StopSet
    \/ StopWait
    \/ \E i \in 1..MaxStarts : LoopCheck(i)
    \/ \E i \in 1..MaxStarts : spLoopDraw(i)
    \/ \E i \in 1..MaxStarts : prRedrawLock(i)
    \/ \E i \in 1..MaxStarts : prRedraw(i)
    \/ \E w \in Workers : IncrementLock(w)
    \/ \E w \in Workers : Increment(w)
    \/ Signal
    \/ SignalExit

\* Spinners with and without frames and label; a Progress of every number of
\* steps, with and without label.
Widgets ==
    { WithLabel(WithFrames(NewSpinner, fr), lbl) :
          fr \in {<<>>, <<"- ", "| ">>}, lbl \in {"", "Loading..."} }
    \cup {NewSpinner}
    \cup { WithSteps(NewProgress, n) : n \in (-1)..MaxSteps }
    \cup { WithLabel(WithSteps(NewProgress, MaxSteps), "") }

\* No select prompt is rendered.
NoPrompt ==
    /\ prompt = NewSingleSelect
    /\ rendersLeft = 0
    /\ stdOutput = <<>>
    /\ redraws = 0
    /\ pc = "idle"
    /\ interrupted = FALSE
    /\ searchQuery = <<>>
    /\ searchMode = FALSE
    /\ filteredChoices = <<>>
    /\ pageSize = 0
    /\ cursorIdx = 0
    /\ startIdx = 0
    /\ endIdx = 0
    /\ valMessage = <<>>
    /\ minRequired = 0
    /\ maxAllowed = 0
    /\ ret = NoRet

\* A caller that calls Start up to n times, and goroutines that call
\* Increment up to k times each.
InitWidgetWith(widgets, n, k) ==
    /\ NoPrompt
    /\ NoInput
    /\ term \in {TermOK, TermUnknown}
    /\ widget \in widgets
    /\ current = 0
    /\ stop = FALSE
    /\ wg = 0
    /\ loops = <<>>
    /\ startsLeft = n
    /\ callerPc = "idle"
    /\ sig = "none"
    /\ proc = "running"
    /\ mu = "free"
    /\ incs = [w \in Workers |-> [pc |-> "idle", left |-> k]]
    /\ shown = <<>>

\* Start and Stop, again and again, with one Increment by each goroutine.
InitWidget == InitWidgetWith(Widgets, MaxStarts, 1)
SpecWidget == InitWidget /\ [][NextWidget]_vars

\* A Progress started once, with more calls of Increment than steps.
ProgressWidgets == { w \in Widgets : w.kind = "progress" }
InitProgress == InitWidgetWith(ProgressWidgets, 1, MaxSteps)
\* The steps of a Progress, its callers and its goroutines.
NextProgress ==
    \/ Start
    \/ StopSet
    \/ StopWait
    \/ \E i \in 1..MaxStarts : LoopCheck(i)
    \/ \E i \in 1..MaxStarts : prRedrawLock(i)
    \/ \E i \in 1..MaxStarts : prRedraw(i)
    \/ \E w \in Workers : IncrementLock(w)
    \/ \E w \in Workers : Increment(w)
    \/ Signal
    \/ SignalExit

SpecProgress == InitProgress /\ [][NextProgress]_vars

(***************************************************************************)
(* Text input and secure input: Render and the cases of its key handler.   *)
(* The two differ in what redraw echoes, not in the state they keep.       *)
(***************************************************************************)
MaxInput == 2

NewTextInput == [kind |-> "text", validator |-> "nil", noEcho |-> FALSE]
NewSecureInput == [kind |-> "secure", validator |-> "nil", noEcho |-> FALSE]
WithValidator(in, fn) == [in EXCEPT !.validator = fn]
WithNoEcho(in) == [in EXCEPT !.noEcho = TRUE]

\* The validators a caller gives: one that wants some text, one that wants
\* text without a blank.  Each answers a message and whether the text passes.
Validators == {"notEmpty", "noBlank"}
validate(fn, buf) ==
    IF fn = "notEmpty"
    THEN IF Len(buf) > 0 THEN [msg |-> <<"ok">>, ok |-> TRUE]
         ELSE [msg |-> <<"text is required">>, ok |-> FALSE]
    ELSE IF \E i \in 1..Len(buf) : buf[i] = " "
         THEN [msg |-> <<"no blanks">>, ok |-> FALSE]
         ELSE [msg |-> <<>>, ok |-> TRUE]

\* strings.TrimRight(s, "\r\n")
RECURSIVE TrimRight(_)
TrimRight(s) ==
    IF Len(s) > 0 /\ s[Len(s)] \in {"\r", "\n"} THEN TrimRight(SubSeq(s, 1, Len(s) - 1)) ELSE s

\* append(inBuf[:cursorPos], append([]rune{r}, inBuf[cursorPos:]...)...)
insertRune(buf, pos, r) == SubSeq(buf, 1, pos) \o (<<r>> \o SubSeq(buf, pos + 1, Len(buf)))

\* Mutant: the character under the cursor is removed, not the one before it.
removeRuneUnderCursor(buf, pos) == SubSeq(buf, 1, pos) \o SubSeq(buf, pos + 2, Len(buf))

\* append(inBuf[:cursorPos-1], inBuf[cursorPos:]...)
removeRune(buf, pos) == SubSeq(buf, 1, pos - 1) \o SubSeq(buf, pos + 1, Len(buf))

tiRender ==
    /\ pc = "idle"
    /\ rendersLeft > 0
    /\ rendersLeft' = rendersLeft - 1
    /\ interrupted' = FALSE
    /\ receivedInput' = FALSE
    /\ inBuf' = <<>>
    /\ cursorPos' = 0
    /\ valMessage' = <<>>
    /\ IF makeSpaceFails(term, 8)
       THEN /\ pc' = "done"
            /\ ret' = [value |-> <<>>, err |-> "ErrTerminalTooSmall"]
            /\ redraws' = 0
            /\ UNCHANGED stdOutput
       ELSE /\ pc' = "listen"
            /\ ret' = NoRet
            /\ stdOutput' = redraw(saveState(makeSpace(<<>>)))
            /\ redraws' = 1
    /\ UNCHANGED <<input, term, widgetVars, prompt, searchQuery, searchMode, filteredChoices,
                   pageSize, cursorIdx, startIdx, endIdx, minRequired, maxAllowed>>

\* What the text input's actions leave alone.
tiFrame ==
    UNCHANGED <<input, term, rendersLeft, widgetVars, prompt, searchQuery, searchMode,
                filteredChoices, pageSize, cursorIdx, startIdx, endIdx, minRequired, maxAllowed>>

\* The handler goes on with buffer buf and cursor pos: the live redraw with
\* the validator's answer, and return false, nil.
tiContinue(buf, pos) ==
    /\ receivedInput' = TRUE
    /\ inBuf' = buf
    /\ cursorPos' = pos
    /\ valMessage' = IF input.validator # "nil" THEN validate(input.validator, buf).msg ELSE <<>>
    /\ stdOutput' = redraw(stdOutput)
    /\ redraws' = 1
    /\ UNCHANGED <<pc, interrupted, ret>>
    /\ tiFrame

\* What Render returns once keyboard.Listen returned err.
tiAfterListen(buf, err, intr) ==
    IF err # "nil" THEN [value |-> <<>>, err |-> err]
    ELSE IF intr THEN [value |-> <<>>, err |-> "ErrInterrupted"]
    ELSE [value |-> TrimRight(buf), err |-> "nil"]

\* The loop stops and Render returns r; the deferred resetState runs.
tiReturns(r) ==
    /\ pc' = "done"
    /\ ret' = r
    /\ receivedInput' = TRUE
    /\ stdOutput' = resetState(stdOutput)
    /\ redraws' = 0
    /\ UNCHANGED <<inBuf, cursorPos, valMessage>>
    /\ tiFrame

tiKeyCtrlC ==
    /\ pc = "listen"
    /\ interrupted' = TRUE
    /\ tiReturns(tiAfterListen(inBuf, "nil", TRUE))

\* Mutant: Enter ends the session whatever the validator answers.
tiKeyEnterWithoutValidator ==
    /\ pc = "listen"
    /\ tiReturns(tiAfterListen(inBuf, "nil", interrupted))
    /\ UNCHANGED interrupted

tiKeyEnter ==
    /\ pc = "listen"
    /\ IF input.validator # "nil" /\ ~validate(input.validator, inBuf).ok
       THEN tiContinue(inBuf, cursorPos)
       ELSE tiReturns(tiAfterListen(inBuf, "nil", interrupted)) /\ UNCHANGED interrupted

tiKeyLeft ==
    /\ pc = "listen"
    /\ tiContinue(inBuf, IF cursorPos > 0 THEN cursorPos - 1 ELSE cursorPos)

tiKeyRight ==
    /\ pc = "listen"
    /\ tiContinue(inBuf, IF cursorPos < Len(inBuf) THEN cursorPos + 1 ELSE cursorPos)

tiKeyBackspace ==
    /\ pc = "listen"
    /\ IF cursorPos > 0
       THEN tiContinue(removeRune(inBuf, cursorPos), cursorPos - 1)
       ELSE tiContinue(inBuf, cursorPos)

tiKeySpace ==
    /\ pc = "listen"
    /\ Len(inBuf) < MaxInput
    /\ tiContinue(insertRune(inBuf, cursorPos, " "), cursorPos + 1)

\* case keys.RuneKey with key.Runes = runes.
tiKeyRuneWith(runes) ==
    /\ pc = "listen"
    /\ Len(inBuf) < MaxInput
    /\ IF Len(runes) > 0
       THEN tiContinue(insertRune(inBuf, cursorPos, runes[1]), cursorPos + 1)
       ELSE tiContinue(inBuf, cursorPos)

\* A letter and a line feed (pasted text) are typed.
InputRunes == {"a", "\n"}
tiKeyRune == \E runes \in {<<>>} \cup {<<r>> : r \in InputRunes} : tiKeyRuneWith(runes)

\* A key code the handler has no case for.
tiKeyOther ==
    /\ pc = "listen"
    /\ tiContinue(inBuf, cursorPos)

tiListenErrorWith(err) ==
    /\ pc = "listen"
    /\ tiReturns(tiAfterListen(inBuf, err, interrupted))
    /\ UNCHANGED interrupted

tiListenError == \E err \in ListenErrors : tiListenErrorWith(err)

NextInput ==
    \/ tiRender
    \/ tiKeyCtrlC
    \/ tiKeyEnter
    \/ tiKeyLeft
    \/ tiKeyRight
    \/ tiKeyBackspace
    \/ tiKeySpace
    \/ tiKeyRune
    \/ tiKeyOther
    \/ tiListenError

Inputs ==
    UNION { Maybe(in, { WithValidator(in, fn) : fn \in Validators }) :
            in \in {NewTextInput, NewSecureInput, WithNoEcho(NewSecureInput)} }

InitInput ==
    /\ NoWidget
    /\ input \in Inputs
    /\ inBuf = <<>>
    /\ cursorPos = 0
    /\ receivedInput = FALSE
    /\ term \in {TermOK, TermNarrow}
    /\ prompt = NewSingleSelect
    /\ rendersLeft = 1
    /\ stdOutput = <<>>
    /\ redraws = 0
    /\ pc = "idle"
    /\ interrupted = FALSE
    /\ searchQuery = <<>>
    /\ searchMode = FALSE
    /\ filteredChoices = <<>>
    /\ pageSize = 0
    /\ cursorIdx = 0
    /\ startIdx = 0
    /\ endIdx = 0
    /\ valMessage = <<>>
    /\ minRequired = 0
    /\ maxAllowed = 0
    /\ ret = NoRet

SpecInput == InitInput /\ [][NextInput]_vars

(***************************************************************************)
(* Cursor, window and filter (checked under SpecNav).                      *)
(***************************************************************************)
\* C1: while a session is in its loop (after session start and after every
\* key event), the cursor is an index of the filtered list whenever that
\* list is non-empty.
C1_CursorInRange ==
    (pc = "listen" /\ Len(filteredChoices) > 0)
        => (0 <= cursorIdx /\ cursorIdx < Len(filteredChoices))

\* A filter recomputation has clamped the cursor: the query "a" keeps two of
\* three choices and the cursor sits on the last of them, below a window
\* that was scrolled down before.
C1_Witness ==
    /\ pc = "listen"
    /\ Len(prompt.choices) = 3
    /\ searchQuery = <<"a">>
    /\ Len(filteredChoices) = 2
    /\ cursorIdx = 1
    /\ startIdx = 1

\* The window [startIdx, endIdx) lies inside the filtered list, is at most
\* pageSize long and holds the cursor.
WindowOK ==
    /\ startIdx >= 0
    /\ endIdx <= Len(filteredChoices)
    /\ endIdx - startIdx <= pageSize
    /\ startIdx <= cursorIdx
    /\ cursorIdx < endIdx

\* C2: in the loop of every session that passed the entry checks, whenever
\* the filtered list is non-empty, the window [startIdx, endIdx) satisfies
\* startIdx >= 0, endIdx <= len(filteredChoices), endIdx - startIdx <= pageSize
\* and startIdx <= cursorIdx < endIdx.
C2_WindowHoldsCursor ==
    (pc = "listen" /\ Len(filteredChoices) > 0) => WindowOK

\* The part of C2 the code keeps: the same for a configured page size of at least 1.
C2_WindowHoldsCursorPositivePage ==
    (pc = "listen" /\ Len(filteredChoices) > 0 /\ prompt.pageSize >= 1) => WindowOK

\* Case-insensitive substring match, character by character.
SameLetter(a, b) ==
    \/ a = b
    \/ a \in DOMAIN UpperToLower /\ UpperToLower[a] = b
    \/ b \in DOMAIN UpperToLower /\ UpperToLower[b] = a
Matches(label, query) ==
    \E off \in 0..(Len(label) - Len(query)) :
        \A k \in 1..Len(query) : SameLetter(label[off + k], query[k])
MatchingIndexes(p, query) ==
    {i \in 1..Len(p.choices) : Matches(p.choices[i].Label, query)}
\* fc lists the choices of p at the matching indexes, in increasing index order.
IsFilterOf(fc, p, query) ==
    LET M == MatchingIndexes(p, query) IN
    /\ Len(fc) = Cardinality(M)
    /\ \A j \in 1..Len(fc) :
          \E i \in M : Cardinality({m \in M : m < i}) = j - 1 /\ fc[j] = p.choices[i]

\* C3: in the loop, filteredChoices is the whole choice list when the query
\* is empty, and otherwise exactly the choices whose label holds the query
\* as a case-insensitive substring, in their original order.
C3_FilterIsMatchingSubsequence ==
    pc = "listen" =>
        IF searchQuery = <<>> THEN filteredChoices = prompt.choices
        ELSE IsFilterOf(filteredChoices, prompt, searchQuery)

\* Apple, Banana, Cherry with the query "aN" give [Banana].
C3_Witness ==
    /\ pc = "listen"
    /\ Len(prompt.choices) = 3
    /\ searchQuery = <<"a", "N">>
    /\ filteredChoices = <<Fruits(3)[2]>>

\* C4: whenever the query is empty again, filteredChoices is the full choice list.
C4_ClearedQueryRestoresList ==
    (pc = "listen" /\ searchQuery = <<>>) => filteredChoices = prompt.choices

\* The query is empty again after a query with zero hits: the message of a
\* toggle on the empty list is still shown, over the full list.
C4_Witness ==
    /\ pc = "listen"
    /\ searchMode
    /\ searchQuery = <<>>
    /\ valMessage = <<"No choices available">>
    /\ Len(filteredChoices) = 3

\* The window after Move-previous and after Move-next in the current state.
Previous == navigateUp(Window, Len(filteredChoices), pageSize)
Following == navigateDown(Window, Len(filteredChoices), pageSize)
\* The window w holds the cursor position cur.
HoldsCursor(w, cur) == w.startIdx <= cur /\ cur < w.endIdx
\* v is w with the cursor at cur and both edges moved by d.
MovedBy(w, v, cur, d) ==
    v = [cursorIdx |-> cur, startIdx |-> w.startIdx + d, endIdx |-> w.endIdx + d]

\* C21: Move-previous with the cursor at 0 and Move-next with the cursor on
\* the last filtered choice (or on an empty filtered list) change neither
\* cursor nor window; otherwise the cursor moves by exactly one, the window
\* stays as it is if it still holds the cursor and else shifts by exactly
\* one position in the direction of the move.
C21_NavigationMovesByOne ==
    pc = "listen" =>
        /\ IF cursorIdx = 0
           THEN Previous = Window
           ELSE IF HoldsCursor(Window, cursorIdx - 1)
                THEN MovedBy(Window, Previous, cursorIdx - 1, 0)
                ELSE MovedBy(Window, Previous, cursorIdx - 1, -1)
        /\ IF Len(filteredChoices) = 0 \/ cursorIdx = Len(filteredChoices) - 1
           THEN Following = Window
           ELSE IF HoldsCursor(Window, cursorIdx + 1)
                THEN MovedBy(Window, Following, cursorIdx + 1, 0)
                ELSE MovedBy(Window, Following, cursorIdx + 1, 1)

\* The part of C21 the code keeps, for a configured page size of at least
\* 1: no move at the two ends of the list; otherwise the cursor moves by
\* one, a window that still holds it stays, and else the edge the cursor
\* crossed moves by exactly one and the window holds the cursor again (the
\* other edge follows when pageSize choices were shown, and stays when a
\* filter had left fewer in the window).
C21_NavigationMovesByOnePositivePage ==
    (pc = "listen" /\ prompt.pageSize >= 1) =>
        /\ IF cursorIdx = 0
           THEN Previous = Window
           ELSE IF HoldsCursor(Window, cursorIdx - 1)
                THEN MovedBy(Window, Previous, cursorIdx - 1, 0)
                ELSE /\ Previous.cursorIdx = cursorIdx - 1
                     /\ Previous.startIdx = startIdx - 1
                     /\ HoldsCursor(Previous, cursorIdx - 1)
                     /\ endIdx - startIdx = pageSize => Previous.endIdx = endIdx - 1
                     /\ endIdx - startIdx < pageSize => Previous.endIdx = endIdx
        /\ IF Len(filteredChoices) = 0 \/ cursorIdx = Len(filteredChoices) - 1
           THEN Following = Window
           ELSE IF HoldsCursor(Window, cursorIdx + 1)
                THEN MovedBy(Window, Following, cursorIdx + 1, 0)
                ELSE MovedBy(Window, Following, cursorIdx + 1, 1)

\* C22: from any session state Up and Left give the same next state, and
\* so do Down and Right; while not searching, the printable k and h give
\* the next state of Up, and j and l that of Down.
C22_NavigationKeysAgree ==
    [][/\ KeyUp <=> KeyLeft
       /\ KeyDown <=> KeyRight
       /\ ~searchMode =>
            /\ KeyRuneWith(<<"k">>) <=> KeyUp
            /\ KeyRuneWith(<<"h">>) <=> KeyUp
            /\ KeyRuneWith(<<"j">>) <=> KeyDown
            /\ KeyRuneWith(<<"l">>) <=> KeyDown]_vars

\* Out of search mode the cursor went down to the third choice and took
\* the window of two with it.
C22_Witness ==
    /\ pc = "listen"
    /\ ~searchMode
    /\ searchQuery = <<>>
    /\ pageSize = 2
    /\ cursorIdx = 2
    /\ startIdx = 1
    /\ endIdx = 3

\* The queries one key event can make of the current one while searching.
EditedQueries ==
    (IF Len(searchQuery) < MaxQuery THEN {Append(searchQuery, r) : r \in AllRunes} ELSE {})
        \cup (IF Len(searchQuery) > 0
              THEN {SubSeq(searchQuery, 1, Len(searchQuery) - 1)} ELSE {})
\* Cursor and window after the filter was recomputed for the query q.
Recomputed(q) == resetCursorAfterFilter(Window, Len(filterChoices(prompt, q)), pageSize)

\* C25: after each filter recomputation: with no hits cursorIndex, start
\* and end are all 0; otherwise cursorIndex is min(previous cursorIndex,
\* len(filteredChoices) - 1), not 0, and the window is moved only as far as
\* needed to hold it.
C25_RecomputationKeepsCursor ==
    (pc = "listen" /\ searchMode) =>
        \A q \in EditedQueries :
            LET n   == Len(filterChoices(prompt, q))
                cur == min(cursorIdx, n - 1)
                R   == Recomputed(q)
            IN  IF n = 0
                THEN R = [cursorIdx |-> 0, startIdx |-> 0, endIdx |-> 0]
                ELSE /\ R.cursorIdx = cur
                     /\ HoldsCursor(R, cur)
                     /\ R.endIdx = min(R.startIdx + pageSize, n)
                     /\ (startIdx <= cur /\ cur < startIdx + pageSize) => R.startIdx = startIdx
                     /\ cur < startIdx => R.startIdx = cur
                     /\ cur >= startIdx + pageSize => R.startIdx = cur - pageSize + 1

\* The part of C25 the code keeps: the same for a configured page size of
\* at least 1.
C25_RecomputationKeepsCursorPositivePage ==
    (pc = "listen" /\ searchMode /\ prompt.pageSize >= 1) =>
        \A q \in EditedQueries :
            LET n   == Len(filterChoices(prompt, q))
                cur == min(cursorIdx, n - 1)
                R   == Recomputed(q)
            IN  IF n = 0
                THEN R = [cursorIdx |-> 0, startIdx |-> 0, endIdx |-> 0]
                ELSE /\ R.cursorIdx = cur
                     /\ HoldsCursor(R, cur)
                     /\ R.endIdx = min(R.startIdx + pageSize, n)
                     /\ (startIdx <= cur /\ cur < startIdx + pageSize) => R.startIdx = startIdx
                     /\ cur < startIdx => R.startIdx = cur
                     /\ cur >= startIdx + pageSize => R.startIdx = cur - pageSize + 1

(***************************************************************************)
(* Keys and search mode (checked under SpecKeys).                          *)
(***************************************************************************)
\* C23: Tab flips searchMode and Escape sets it to false (no effect out of
\* search mode); neither changes searchQuery, filteredChoices, cursor,
\* window or selection, so a filter typed while searching stays in force
\* after search mode is left.
C23_ModeKeysKeepFilter ==
    /\ [][KeyTab =>
             /\ searchMode' = ~searchMode
             /\ pc' = "listen"
             /\ UNCHANGED <<searchQuery, filteredChoices, cursorIdx, startIdx, endIdx,
                            prompt>>]_vars
    /\ [][KeyEscape =>
             /\ searchMode' = FALSE
             /\ pc' = "listen"
             /\ UNCHANGED <<searchQuery, filteredChoices, cursorIdx, startIdx, endIdx,
                            prompt>>]_vars
    /\ []((pc = "listen" /\ ~searchMode /\ searchQuery # <<>>)
             => IsFilterOf(filteredChoices, prompt, searchQuery))

\* Out of search mode the query "l" still holds the list to Apple alone.
C23_Witness ==
    /\ pc = "listen"
    /\ ~searchMode
    /\ searchQuery = <<"l">>
    /\ Len(filteredChoices) = 1
    /\ Len(prompt.choices) = 3

\* C24: searchQuery and filteredChoices change only while searchMode is
\* true: a printable character typed while searching, the letters j, k, h
\* and l among them, is appended to searchQuery and does not move the
\* cursor as a navigation key would (the cursor stays, or is brought back
\* into a shorter list); out of search mode printable characters and
\* Backspace leave searchQuery and filteredChoices as they are.
C24_QueryChangesOnlyWhileSearching ==
    /\ [][(/\ pc = "listen"
           /\ pc' = "listen"
           /\ (searchQuery' # searchQuery \/ filteredChoices' # filteredChoices))
             => searchMode]_vars
    /\ [][\A r \in KeysRunes :
             (KeyRuneWith(<<r>>) /\ searchMode) =>
                 /\ searchQuery' = Append(searchQuery, r)
                 /\ cursorIdx' = (IF Len(filteredChoices') = 0 THEN 0
                                  ELSE min(cursorIdx, Len(filteredChoices') - 1))]_vars
    /\ [][(~searchMode /\ (KeyBackspace \/ \E r \in KeysRunes : KeyRuneWith(<<r>>)))
             => UNCHANGED <<searchQuery, filteredChoices>>]_vars

\* The letter j was typed while searching: it is the query, no label
\* has it, and the cursor is at 0.
C24_Witness ==
    /\ pc = "listen"
    /\ searchMode
    /\ searchQuery = <<"j">>
    /\ filteredChoices = <<>>
    /\ cursorIdx = 0

(***************************************************************************)
(* Erasing (checked under SpecBytes).                                      *)
(***************************************************************************)
\* The query ends with the character c.
EndsWith(query, c) ==
    /\ Len(query) >= Len(String(c))
    /\ SubSeq(query, Len(query) - Len(String(c)) + 1, Len(query)) = String(c)
\* The query without its last character c.
WithoutLast(query, c) == SubSeq(query, 1, Len(query) - Len(String(c)))

\* C26: while searching, Erase-search removes exactly the last character of
\* a non-empty searchQuery and does nothing on an empty one: for every
\* printable character c, of one byte or of more, an Erase-search on the
\* query that Edit-search(c) made brings back searchQuery and
\* filteredChoices as they were before c was typed.
C26_EraseUndoesEdit ==
    /\ [][\A c \in BytesRunes :
             (KeyBackspace /\ searchMode /\ EndsWith(searchQuery, c)) =>
                 /\ searchQuery' = WithoutLast(searchQuery, c)
                 /\ filteredChoices' = filterChoices(prompt, WithoutLast(searchQuery, c))]_vars
    /\ [][(KeyBackspace /\ searchMode /\ searchQuery = <<>>) =>
             UNCHANGED <<searchQuery, filteredChoices, cursorIdx, startIdx, endIdx>>]_vars

\* The part of C26 the code keeps: the same for characters of one byte.
C26_EraseUndoesEditOneByte ==
    /\ [][\A c \in {r \in BytesRunes : Len(String(r)) = 1} :
             (KeyBackspace /\ searchMode /\ EndsWith(searchQuery, c)) =>
                 /\ searchQuery' = WithoutLast(searchQuery, c)
                 /\ filteredChoices' = filterChoices(prompt, WithoutLast(searchQuery, c))]_vars
    /\ [][(KeyBackspace /\ searchMode /\ searchQuery = <<>>) =>
             UNCHANGED <<searchQuery, filteredChoices, cursorIdx, startIdx, endIdx>>]_vars

(***************************************************************************)
(* Selection (checked under SpecSel).                                      *)
(***************************************************************************)
\* The choice under the cursor.
Current == filteredChoices[cursorIdx + 1]
\* A toggle reaches the choice under the cursor and that choice is enabled.
OnEnabledChoice == pc = "listen" /\ Len(filteredChoices) > 0 /\ ~Current.Disabled
OnDisabledChoice == pc = "listen" /\ Len(filteredChoices) > 0 /\ Current.Disabled

\* The values selected in p, as a set.
ValuesOf(sel) == {sel[i].Value : i \in 1..Len(sel)}
SelectedValues(p) ==
    IF p.kind = "single"
    THEN IF p.selectedChoice = ZeroChoice THEN {} ELSE {p.selectedChoice.Value}
    ELSE ValuesOf(p.selectedChoices)

\* C5: single-select: a toggle on an enabled current item clears the
\* selection when that item is the selection, and otherwise makes that item
\* the selection, whatever the item's value (the selection is one Choice or
\* none at all times).
C5_ToggleSelectsOrClears ==
    [][(ssKeySpace /\ OnEnabledChoice) =>
          IF prompt.selectedChoice = Current
          THEN prompt'.selectedChoice = ZeroChoice
          ELSE prompt'.selectedChoice = Current]_vars

\* The part of C5 the code keeps: the same for current items with a non-empty value.
C5_ToggleSelectsOrClearsNonBlank ==
    [][(ssKeySpace /\ OnEnabledChoice /\ Current.Value # "") =>
          IF prompt.selectedChoice = Current
          THEN prompt'.selectedChoice = ZeroChoice
          ELSE prompt'.selectedChoice = Current]_vars

\* The receiver p after a toggle in the current session state.
SpaceOn(p) ==
    IF p.kind = "single" THEN ssSpace(p, filteredChoices, cursorIdx).prompt
    ELSE msSpace(p, filteredChoices, cursorIdx, minRequired, maxAllowed).prompt

\* C6: in both variants, two toggles in a row on the same enabled current
\* item leave the set of selected values as it was.
C6_ToggleTwiceRestores ==
    OnEnabledChoice => SelectedValues(SpaceOn(SpaceOn(prompt))) = SelectedValues(prompt)

\* The states of C6 in which the code keeps it: multi-select with no value
\* selected twice and no more than maxAllowed selected; single-select with
\* nothing selected, or with the current item selected and its value non-empty.
C6_ToggleTwiceRestoresWithinLimits ==
    (/\ OnEnabledChoice
     /\ prompt.kind = "multi" =>
            /\ Cardinality(ValuesOf(prompt.selectedChoices)) = Len(prompt.selectedChoices)
            /\ Len(prompt.selectedChoices) <= maxAllowed
     /\ prompt.kind = "single" =>
            \/ prompt.selectedChoice = ZeroChoice
            \/ prompt.selectedChoice = Current /\ Current.Value # "")
        => SelectedValues(SpaceOn(SpaceOn(prompt))) = SelectedValues(prompt)

\* C7: in both variants, a toggle with the cursor on a disabled choice
\* changes nothing but the validation message, and the session stays in its loop.
C7_DisabledToggleOnlySetsMessage ==
    [][((ssKeySpace \/ msKeySpace) /\ OnDisabledChoice) =>
          /\ prompt' = prompt
          /\ valMessage' = <<"Cannot select a disabled choice">>
          /\ pc' = "listen"
          /\ UNCHANGED <<searchQuery, searchMode, filteredChoices,
                         cursorIdx, startIdx, endIdx, ret>>]_vars

\* The cursor is on a disabled choice that is selected (by default), and the
\* message of the refused toggle is shown.
C7_Witness ==
    /\ OnDisabledChoice
    /\ prompt.kind = "multi"
    /\ isSelected(prompt.selectedChoices, Current)
    /\ valMessage = <<"Cannot select a disabled choice">>

\* C8: multi-select: in its loop, from the initial state with the defaults
\* applied onward, a session never has more than maxAllowed choices selected.
C8_SelectedAtMostMax ==
    (pc = "listen" /\ prompt.kind = "multi") => Len(prompt.selectedChoices) <= maxAllowed

\* The part of C8 the code keeps: key events never take the count above
\* maxAllowed, nor raise a count that is above it.
C8_TogglesKeepMax ==
    [][(pc = "listen" /\ prompt.kind = "multi" /\ pc' = "listen") =>
          \/ Len(prompt'.selectedChoices) <= maxAllowed
          \/ Len(prompt'.selectedChoices) <= Len(prompt.selectedChoices)]_vars

\* C9: multi-select: a confirm with fewer than minRequired selected sets the
\* at-least message and stays in the loop, any other confirm ends the session
\* with a nil error; so a nil error comes with at least minRequired choices.
C9_ConfirmNeedsMin ==
    /\ [][msKeyEnter =>
             IF Len(prompt.selectedChoices) < minRequired
             THEN /\ pc' = "listen"
                  /\ valMessage' = AtLeastMessage(minRequired)
                  /\ prompt' = prompt
             ELSE /\ pc' = "done"
                  /\ ret' = [value |-> prompt.selectedChoices, err |-> "nil"]]_vars
    /\ []((pc = "done" /\ prompt.kind = "multi" /\ ret.err = "nil")
             => Len(ret.value) >= minRequired)

\* One of two required choices is selected and the at-least message is shown.
C9_Witness ==
    /\ pc = "listen"
    /\ prompt.kind = "multi"
    /\ minRequired = 2
    /\ Len(prompt.selectedChoices) = 1
    /\ valMessage = AtLeastMessage(2)

\* C10: multi-select: a toggle on an enabled, unselected item while
\* maxAllowed are selected changes nothing but the message, which becomes
\* the cannot-select-more message; and with min = max = 2 a confirm that
\* follows such a refusal returns exactly the two selected choices.
C10_ToggleAtMaxRefused ==
    /\ [][(/\ msKeySpace
           /\ OnEnabledChoice
           /\ ~isSelected(prompt.selectedChoices, Current)
           /\ Len(prompt.selectedChoices) = maxAllowed) =>
             /\ prompt' = prompt
             /\ valMessage' = AtMostMessage(maxAllowed)
             /\ pc' = "listen"]_vars
    /\ [][(/\ msKeyEnter
           /\ minRequired = 2
           /\ maxAllowed = 2
           /\ Len(prompt.selectedChoices) = 2
           /\ valMessage = AtMostMessage(2)) =>
             /\ pc' = "done"
             /\ ret' = [value |-> prompt.selectedChoices, err |-> "nil"]]_vars

\* min = max = 2: Apple and Cherry were selected, the toggle on Date was refused.
C10_Witness ==
    /\ OnEnabledChoice
    /\ prompt.kind = "multi"
    /\ minRequired = 2
    /\ maxAllowed = 2
    /\ ValuesOf(prompt.selectedChoices) = {"apple", "cherry"}
    /\ Len(prompt.selectedChoices) = 2
    /\ Current.Value = "date"
    /\ valMessage = AtMostMessage(2)

(***************************************************************************)
(* Confirm, interrupt and the ways a session ends (checked under SpecSel). *)
(***************************************************************************)
\* C11: single-select, not optional: a confirm while no item is selected
\* does not end the session; it sets the message "No selection made
\* (required)" and the loop continues.
C11_RequiredConfirmRejected ==
    [][(ssKeyEnter /\ ~prompt.optional /\ prompt.selectedChoice = ZeroChoice) =>
          /\ pc' = "listen"
          /\ valMessage' = <<"No selection made (required)">>
          /\ prompt' = prompt
          /\ ret' = NoRet]_vars

\* A required prompt with nothing selected shows the message over a list
\* that has choices.
C11_Witness ==
    /\ pc = "listen"
    /\ prompt.kind = "single"
    /\ ~prompt.optional
    /\ prompt.selectedChoice = ZeroChoice
    /\ Len(filteredChoices) > 0
    /\ valMessage = <<"No selection made (required)">>

\* C12: single-select: whenever an item is selected, a confirm ends the
\* session successfully and Render returns that item, in every state of
\* searchMode, searchQuery and filteredChoices (a query with zero hits
\* included) and whether or not the prompt is optional.
C12_SelectedConfirmSucceeds ==
    [][(ssKeyEnter /\ prompt.selectedChoice # ZeroChoice) =>
          /\ pc' = "done"
          /\ ret' = [value |-> prompt.selectedChoice, err |-> "nil"]]_vars

\* The part of C12 the code keeps: the same while the filtered list has a
\* choice, or the prompt is optional.
C12_SelectedConfirmSucceedsWithHits ==
    [][(/\ ssKeyEnter
        /\ prompt.selectedChoice # ZeroChoice
        /\ (Len(filteredChoices) > 0 \/ prompt.optional)) =>
          /\ pc' = "done"
          /\ ret' = [value |-> prompt.selectedChoice, err |-> "nil"]]_vars

\* C13: single-select, optional: a confirm while nothing is selected ends
\* the session successfully and Render returns the zero-value Choice with a
\* nil error.
C13_OptionalConfirmEmpty ==
    [][(ssKeyEnter /\ prompt.optional /\ prompt.selectedChoice = ZeroChoice) =>
          /\ pc' = "done"
          /\ ret' = [value |-> ZeroChoice, err |-> "nil"]]_vars

\* An optional prompt returned the zero-value Choice and no error.
C13_Witness ==
    /\ pc = "done"
    /\ prompt.kind = "single"
    /\ prompt.optional
    /\ prompt.selectedChoice = ZeroChoice
    /\ ret = [value |-> ZeroChoice, err |-> "nil"]

\* C14: in both variants, an interrupt can be received in every state of
\* the loop; it ends the loop, no further event is handled, and Render
\* returns ErrInterrupted with an empty result, not the current selection.
C14_InterruptEndsWithEmpty ==
    /\ [](pc = "listen" => ENABLED KeyCtrlC)
    /\ [][KeyCtrlC =>
             /\ pc' = "done"
             /\ ret' = [value |-> EmptyResult(prompt), err |-> "ErrInterrupted"]]_vars
    /\ [][pc = "done" => Render]_vars
    /\ [](interrupted => (pc = "done" /\ ret.err = "ErrInterrupted"
                                       /\ ret.value = EmptyResult(prompt)))

\* A multi-select session with two choices selected was interrupted.
C14_Witness ==
    /\ pc = "done"
    /\ interrupted
    /\ prompt.kind = "multi"
    /\ Len(prompt.selectedChoices) = 2
    /\ ret = [value |-> <<>>, err |-> "ErrInterrupted"]

\* The errors of the entry checks.
EntryErrors == {"ErrTerminalTooSmall", "ErrNoSelectionChoices", "ErrInvalidSelectionCount"}
\* Render passed the entry checks: it is in its loop or came back from it.
PassedEntry == pc = "listen" \/ (pc = "done" /\ ret.err \notin EntryErrors)

\* The places of the write tok in the output.
PlacesOf(out, tok) == {i \in 1..Len(out) : out[i] = tok}

\* C15: in every session that passes the entry checks the terminal is
\* acquired exactly once, before the first frame; it is restored exactly
\* once when the loop has ended, on a confirm, on an interrupt and on an
\* error of the keyboard source alike, never while the loop runs; and no
\* frame comes after the restore.
C15_AcquireOnceRestoreOnce ==
    PassedEntry =>
        /\ Cardinality(PlacesOf(stdOutput, "acquire")) = 1
        /\ PlacesOf(stdOutput, "frame") # {}
        /\ \A a \in PlacesOf(stdOutput, "acquire"), f \in PlacesOf(stdOutput, "frame") : a < f
        /\ Cardinality(PlacesOf(stdOutput, "restore")) = (IF pc = "done" THEN 1 ELSE 0)
        /\ \A r \in PlacesOf(stdOutput, "restore"), f \in PlacesOf(stdOutput, "frame") : f < r
        /\ pc = "done" => ret.err \in {"nil", "ErrInterrupted"} \cup ListenErrors

\* The session ended on an error of the keyboard source and the terminal
\* was restored after the last frame.
C15_Witness ==
    /\ pc = "done"
    /\ ret.err \in ListenErrors
    /\ stdOutput = <<"makeSpace", "acquire", "frame", "restore">>

\* C18: when the keyboard source reports an error, Render returns that
\* same error together with an empty result; the session is reported
\* neither as interrupted nor as a success.
C18_KeyboardErrorPassedOn ==
    /\ [][\A err \in ListenErrors :
             ListenErrorWith(err) =>
                 /\ pc' = "done"
                 /\ ret' = [value |-> EmptyResult(prompt), err |-> err]
                 /\ ~interrupted']_vars
    /\ []((pc = "done" /\ ret.err \in ListenErrors)
             => (ret.value = EmptyResult(prompt) /\ ~interrupted))

\* The keyboard source failed while two choices were selected: Render
\* returned its error and no choice.
C18_Witness ==
    /\ pc = "done"
    /\ ret = [value |-> <<>>, err |-> "errInput"]
    /\ ~interrupted
    /\ prompt.kind = "multi"
    /\ Len(prompt.selectedChoices) = 2

\* sel has no value twice.
NoRepeats(sel) == Cardinality(ValuesOf(sel)) = Len(sel)
\* The choices of sel other than choice, in the order of sel.
Without(sel, choice) == SelectSeq(sel, LAMBDA c : c # choice)
\* The choices at the default indexes that are in the list, in the order given.
DefaultsInOrder(p) ==
    LET idxs == SelectSeq(p.defaultChoices, LAMBDA idx : idx >= 0 /\ idx < Len(p.choices))
    IN  [i \in 1..Len(idxs) |-> p.choices[idxs[i] + 1]]

\* C19: multi-select: a successful confirm returns exactly the selected
\* choices, each once, in the order they were added: the defaults first, in
\* the order of the default indexes, then the toggled items in toggle
\* order; a removal takes the item out and keeps the order of the others,
\* so an item removed and added again is last.
C19_ReturnsSelectionInOrder ==
    /\ [][(Render /\ pc' = "listen" /\ prompt.kind = "multi") =>
             prompt'.selectedChoices = DefaultsInOrder(prompt)]_vars
    /\ [][(msKeySpace /\ prompt' # prompt) =>
             IF isSelected(prompt.selectedChoices, Current)
             THEN prompt'.selectedChoices = Without(prompt.selectedChoices, Current)
             ELSE prompt'.selectedChoices = Append(prompt.selectedChoices, Current)]_vars
    /\ [][(msKeyEnter /\ pc' = "done") =>
             ret' = [value |-> prompt.selectedChoices, err |-> "nil"]]_vars
    /\ []((pc = "done" /\ prompt.kind = "multi" /\ ret.err = "nil") => NoRepeats(ret.value))

\* The part of C19 the code keeps: the same for sessions whose default
\* indexes name no choice twice.
C19_ReturnsSelectionInOrderNoRepeatedDefault ==
    /\ [][(Render /\ pc' = "listen" /\ prompt.kind = "multi") =>
             prompt'.selectedChoices = DefaultsInOrder(prompt)]_vars
    /\ [][(msKeySpace /\ prompt' # prompt /\ NoRepeats(DefaultsInOrder(prompt))) =>
             IF isSelected(prompt.selectedChoices, Current)
             THEN prompt'.selectedChoices = Without(prompt.selectedChoices, Current)
             ELSE prompt'.selectedChoices = Append(prompt.selectedChoices, Current)]_vars
    /\ [][(msKeyEnter /\ pc' = "done") =>
             ret' = [value |-> prompt.selectedChoices, err |-> "nil"]]_vars
    /\ []((/\ pc = "done"
           /\ prompt.kind = "multi"
           /\ ret.err = "nil"
           /\ NoRepeats(DefaultsInOrder(prompt))) => NoRepeats(ret.value))

\* C20: multi-select: minRequired is the configured minimum, but 1 when
\* that is 0 and the prompt is not optional; maxAllowed is the configured
\* maximum, but the number of configured choices when that is 0 (unset);
\* both are set at session start and stay as they are for the session.
C20_BoundsDerived ==
    /\ []((pc = "listen" /\ prompt.kind = "multi") =>
             /\ minRequired = (IF prompt.minSelectedCount = 0 /\ ~prompt.optional
                               THEN 1 ELSE prompt.minSelectedCount)
             /\ maxAllowed = (IF prompt.maxSelectedCount = 0
                              THEN Len(prompt.choices) ELSE prompt.maxSelectedCount))
    /\ [][pc = "listen" => UNCHANGED <<minRequired, maxAllowed>>]_vars

\* A required prompt with neither count configured: at least 1, at most
\* all, still so after two toggles.
C20_Witness ==
    /\ pc = "listen"
    /\ prompt.kind = "multi"
    /\ ~prompt.optional
    /\ prompt.minSelectedCount = 0
    /\ prompt.maxSelectedCount = 0
    /\ minRequired = 1
    /\ maxAllowed = Len(prompt.choices)
    /\ Len(prompt.selectedChoices) = 2
    /\ prompt.defaultChoices = <<>>

(***************************************************************************)
(* The entry checks (checked under SpecEntry).                             *)
(***************************************************************************)
\* What the terminal reports is too small for the session's page.
TooSmall ==
    \/ getTermDimensions(term).height < pageSize + 9
    \/ getTermDimensions(term).width < 50
NoChoicesGiven == Len(prompt.choices) = 0
BadCounts == prompt.kind = "multi" /\ minRequired > maxAllowed

\* Render came back from its entry checks with err: nothing was drawn, the
\* terminal was not acquired, no key was read and the result is empty.
FailedAtEntry(err) ==
    /\ pc = "done"
    /\ ret = [value |-> EmptyResult(prompt), err |-> err]
    /\ PlacesOf(stdOutput, "acquire") = {}
    /\ PlacesOf(stdOutput, "frame") = {}
    /\ PlacesOf(stdOutput, "restore") = {}

InList(p, idx) == idx >= 0 /\ idx < Len(p.choices)
ConfiguredSelection(p) ==
    IF p.kind = "single"
    THEN IF InList(p, p.defaultChoice) THEN p.choices[p.defaultChoice + 1] ELSE ZeroChoice
    ELSE LET idxs == SelectSeq(p.defaultChoices, LAMBDA idx : InList(p, idx))
         IN  [i \in 1..Len(idxs) |-> p.choices[idxs[i] + 1]]

\* C17: every Render invocation starts from fresh session state: the
\* selection a session starts with is the configured default selection
\* (empty without defaults), whatever was selected, confirmed or
\* interrupted in an earlier invocation on the same prompt object.
C17_RenderStartsFresh ==
    [][(Render /\ pc' = "listen") => Selection(prompt') = ConfiguredSelection(prompt)]_vars

\* The part of C17 the code keeps: the same for the first invocation, for
\* a single-select whose default index is in the list and for a
\* multi-select with a non-empty list of default indexes.
C17_RenderStartsFreshWithDefaults ==
    [][(/\ Render
        /\ pc' = "listen"
        /\ \/ pc = "idle"
           \/ prompt.kind = "single" /\ InList(prompt, prompt.defaultChoice)
           \/ prompt.kind = "multi" /\ Len(prompt.defaultChoices) > 0) =>
          Selection(prompt') = ConfiguredSelection(prompt)]_vars

choiceRows(start, end) == IF start < end THEN end - start ELSE 0
paddingRows(start, end, ps) == IF end - start < ps THEN ps - (end - start) ELSE 0

\* C28: in every frame the rows of choices and the blank rows below them
\* are pageSize rows together, whatever the length of filteredChoices (no
\* hits too) and wherever the window is.
C28_FrameHasPageSizeRows ==
    pc = "listen" =>
        choiceRows(startIdx, endIdx) + paddingRows(startIdx, endIdx, pageSize) = pageSize

\* The part of C28 the code keeps: the same for a configured page size of
\* at least 0.
C28_FrameHasPageSizeRowsNotNegative ==
    (pc = "listen" /\ prompt.pageSize >= 0) =>
        choiceRows(startIdx, endIdx) + paddingRows(startIdx, endIdx, pageSize) = pageSize

(***************************************************************************)
(* Toggles, the message and the filter (checked under SpecSel).            *)
(***************************************************************************)
\* The toggle in the current state is carried out: there is a choice under
\* the cursor, it is enabled and, in multi-select, it is selected already or
\* fewer than maxAllowed are.
ToggleAccepted ==
    /\ OnEnabledChoice
    /\ prompt.kind = "multi" =>
           \/ isSelected(prompt.selectedChoices, Current)
           \/ Len(prompt.selectedChoices) < maxAllowed

\* C29: after a toggle that is carried out (an item added or removed), the
\* message of multi-select is the at-least message when fewer than
\* minRequired are selected afterwards and empty otherwise, and the message
\* of single-select is empty; a toggle that is refused and a confirm that is
\* refused leave the selection as it was.
C29_ToggleSetsMessage ==
    [][/\ (ToggleAccepted /\ msKeySpace) =>
              valMessage' = IF Len(prompt'.selectedChoices) < minRequired
                            THEN AtLeastMessage(minRequired) ELSE <<>>
       /\ (ToggleAccepted /\ ssKeySpace) => valMessage' = <<>>
       /\ (~ToggleAccepted /\ (ssKeySpace \/ msKeySpace)) => prompt' = prompt
       /\ (pc' = "listen" /\ (ssKeyEnter \/ msKeyEnter)) => prompt' = prompt]_vars

\* Two choices were selected by default and two are required; a toggle took
\* one of them away and the at-least message is shown.
C29_Witness ==
    /\ pc = "listen"
    /\ prompt.kind = "multi"
    /\ minRequired = 2
    /\ Len(ConfiguredSelection(prompt)) = 2
    /\ Len(prompt.selectedChoices) = 1
    /\ valMessage = AtLeastMessage(2)

\* Something is selected that the filtered list does not show.
HiddenSelected ==
    /\ pc = "listen"
    /\ IF prompt.kind = "single"
       THEN /\ prompt.selectedChoice # ZeroChoice
            /\ ~isSelected(filteredChoices, prompt.selectedChoice)
       ELSE \E i \in 1..Len(prompt.selectedChoices) :
                ~isSelected(filteredChoices, prompt.selectedChoices[i])

\* Enough is selected for a confirm: one item in single-select, minRequired
\* items in multi-select.
EnoughSelected ==
    IF prompt.kind = "single" THEN prompt.selectedChoice # ZeroChoice
    ELSE Len(prompt.selectedChoices) >= minRequired

\* C30: a change of the search query changes neither the selection nor the
\* two bounds; what is selected and hidden by the filter counts for
\* minRequired and maxAllowed and is returned by a confirm; and maxAllowed,
\* when it is not configured, is the number of choices given, not the number
\* of hits.
C30_QueryKeepsSelection ==
    /\ [][/\ (pc' = "listen" /\ searchQuery' # searchQuery) =>
                 (prompt' = prompt /\ UNCHANGED <<minRequired, maxAllowed>>)
          /\ ((ssKeyEnter \/ msKeyEnter) /\ HiddenSelected /\ EnoughSelected) =>
                 (pc' = "done" /\ ret' = [value |-> Selection(prompt), err |-> "nil"])
          /\ (/\ msKeySpace
              /\ HiddenSelected
              /\ OnEnabledChoice
              /\ ~isSelected(prompt.selectedChoices, Current)
              /\ Len(prompt.selectedChoices) >= maxAllowed) => prompt' = prompt]_vars
    /\ []((pc = "listen" /\ prompt.kind = "multi" /\ prompt.maxSelectedCount = 0)
             => maxAllowed = Len(prompt.choices))

\* The part of C30 the code keeps: the same, with the confirm of
\* single-select made while the filtered list has a hit.
C30_QueryKeepsSelectionWithHits ==
    /\ [][/\ (pc' = "listen" /\ searchQuery' # searchQuery) =>
                 (prompt' = prompt /\ UNCHANGED <<minRequired, maxAllowed>>)
          /\ (/\ ssKeyEnter \/ msKeyEnter
              /\ HiddenSelected
              /\ EnoughSelected
              /\ prompt.kind = "single" => Len(filteredChoices) > 0) =>
                 (pc' = "done" /\ ret' = [value |-> Selection(prompt), err |-> "nil"])
          /\ (/\ msKeySpace
              /\ HiddenSelected
              /\ OnEnabledChoice
              /\ ~isSelected(prompt.selectedChoices, Current)
              /\ Len(prompt.selectedChoices) >= maxAllowed) => prompt' = prompt]_vars
    /\ []((pc = "listen" /\ prompt.kind = "multi" /\ prompt.maxSelectedCount = 0)
             => maxAllowed = Len(prompt.choices))

(***************************************************************************)
(* The width of the terminal (checked under SpecEntry).                    *)
(***************************************************************************)
\* The provider reports an error or a width that is not positive.
WidthUnknown(t) == t.err \/ getTermDimensions(t).width <= 0

\* C31: when the provider reports an error or a width that is not positive,
\* every caller goes on with 80 columns: the space check of the select
\* prompts does not fail for the width (a terminal with the rows asked for
\* is accepted), and the banner's padding and the progress redraw use 80.
C31_CallersFallBackTo80 ==
    WidthUnknown(term) =>
        /\ padLineTermWidth(term) = 80
        /\ progressTermWidth(term) = 80
        /\ (pc = "done" /\ getTermDimensions(term).height >= 9 + pageSize)
               => ret.err # "ErrTerminalTooSmall"

\* The part of C31 the code keeps: the banner's padding and the progress
\* redraw use 80 columns then.
C31_OutputCallersFallBackTo80 ==
    WidthUnknown(term) =>
        /\ padLineTermWidth(term) = 80
        /\ progressTermWidth(term) = 80

(***************************************************************************)
(* Reads of filteredChoices (checked under SpecNav).                       *)
(***************************************************************************)
\* The indexes of filteredChoices that redraw reads for the window
\* [start, end), and the index the Space case reads.
redrawReads(start, end) == {i \in start..(end - 1) : TRUE}
spaceReads(fc, cur) == IF Len(fc) = 0 THEN {} ELSE {cur}

\* C32: in every state of the loop, for every configured page size (zero
\* and negative too) and every query (without hits too), the index the
\* Space case would read and the indexes the frame's loop reads are indexes
\* of filteredChoices.
C32_ReadsInRange ==
    pc = "listen" =>
        \A i \in redrawReads(startIdx, endIdx) \cup spaceReads(filteredChoices, cursorIdx) :
            0 <= i /\ i < Len(filteredChoices)

\* A page size that is not positive, a query with hits, and the cursor
\* taken down to the last hit.
C32_Witness ==
    /\ pc = "listen"
    /\ prompt.pageSize <= 0
    /\ searchQuery # <<>>
    /\ Len(filteredChoices) > 1
    /\ cursorIdx = Len(filteredChoices) - 1

(***************************************************************************)
(* Defaults and the result (checked under SpecSel).                        *)
(***************************************************************************)
\* The choices of a result: the one of single-select unless it is the zero
\* Choice, all of multi-select's.
ChoicesOf(p, value) ==
    IF p.kind = "single" THEN (IF value = ZeroChoice THEN {} ELSE {value})
    ELSE {value[i] : i \in 1..Len(value)}

\* C33: the result of a session that was confirmed (Render returned a nil
\* error) holds no disabled choice, whether the selection was made by key
\* events or by the configured defaults.
C33_ResultHasNoDisabledChoice ==
    (pc = "done" /\ ret.err = "nil") => \A c \in ChoicesOf(prompt, ret.value) : ~c.Disabled

\* The part of C33 the code keeps: the same when no configured default is
\* the index of a disabled choice.
C33_ResultHasNoDisabledChoiceByKeys ==
    (/\ pc = "done"
     /\ ret.err = "nil"
     /\ \A c \in ChoicesOf(prompt, ConfiguredSelection(prompt)) : ~c.Disabled)
        => \A c \in ChoicesOf(prompt, ret.value) : ~c.Disabled

\* Indexes that are not indexes of p's choices.
OutOfRangeIndexes(p) == {-2, -1, Len(p.choices), Len(p.choices) + 1}

\* Render's entry checks on p for the terminal of this session.
EntryErrorOf(p) == EntryError(p, term, min(p.pageSize, Len(p.choices)))

\* C34: a default index outside [0, len(choices)), negative or too large,
\* given to WithDefaultChoice before Render, does not change what the entry
\* checks of Render answer and adds nothing to the selection Render starts
\* with: single-select starts with no selection, multi-select with the
\* choices of the other indexes given.
C34_OutOfRangeDefaultIgnored ==
    pc = "idle" =>
        \A idx \in OutOfRangeIndexes(prompt) :
            IF prompt.kind = "single"
            THEN LET q == ssWithDefaultChoice(prompt, idx)
                 IN  /\ EntryErrorOf(q) = EntryErrorOf(prompt)
                     /\ ssApplyDefault(q).selectedChoice = ZeroChoice
            ELSE LET q == msWithDefaultChoice(prompt, <<idx>>)
                     r == msWithDefaultChoice(prompt, <<0, idx>>)
                 IN  /\ EntryErrorOf(q) = EntryErrorOf(prompt)
                     /\ EntryErrorOf(r) = EntryErrorOf(prompt)
                     /\ msApplyDefaults(q).selectedChoices = <<>>
                     /\ msApplyDefaults(r).selectedChoices =
                            msApplyDefaults(msWithDefaultChoice(prompt, <<0>>)).selectedChoices

\* The part of C34 the code keeps: the same for multi-select, and for
\* single-select with an index that is too large.
C34_TooLargeDefaultIgnored ==
    pc = "idle" =>
        \A idx \in OutOfRangeIndexes(prompt) :
            IF prompt.kind = "single"
            THEN LET q == ssWithDefaultChoice(prompt, idx)
                 IN  /\ EntryErrorOf(q) = EntryErrorOf(prompt)
                     /\ idx >= Len(prompt.choices) =>
                            ssApplyDefault(q).selectedChoice = ZeroChoice
            ELSE LET q == msWithDefaultChoice(prompt, <<idx>>)
                     r == msWithDefaultChoice(prompt, <<0, idx>>)
                 IN  /\ EntryErrorOf(q) = EntryErrorOf(prompt)
                     /\ EntryErrorOf(r) = EntryErrorOf(prompt)
                     /\ msApplyDefaults(q).selectedChoices = <<>>
                     /\ msApplyDefaults(r).selectedChoices =
                            msApplyDefaults(msWithDefaultChoice(prompt, <<0>>)).selectedChoices

\* C35: multi-select: in every state of the loop the selection holds each
\* value once at most, so that the count shown is the number of values
\* selected and one toggle on a selected item leaves it unselected; this
\* with repeats among the configured default indexes too.
C35_SelectionHasNoRepeats ==
    (pc = "listen" /\ prompt.kind = "multi") =>
        /\ NoRepeats(prompt.selectedChoices)
        /\ (OnEnabledChoice /\ isSelected(prompt.selectedChoices, Current))
               => ~isSelected(SpaceOn(prompt).selectedChoices, Current)

\* The part of C35 the code keeps: the same when the default indexes given
\* name no choice twice.
C35_SelectionHasNoRepeatsWithoutRepeatedDefault ==
    (pc = "listen" /\ prompt.kind = "multi" /\ NoRepeats(ConfiguredSelection(prompt))) =>
        /\ NoRepeats(prompt.selectedChoices)
        /\ (OnEnabledChoice /\ isSelected(prompt.selectedChoices, Current))
               => ~isSelected(SpaceOn(prompt).selectedChoices, Current)

(***************************************************************************)
(* What navigation leaves alone (checked under SpecKeys).                  *)
(***************************************************************************)
\* A step of one of the navigation events: the four arrow keys, and the
\* letters j, k, h, l typed while the prompt is not searching.
NavigationEvent ==
    \/ KeyUp \/ KeyDown \/ KeyLeft \/ KeyRight
    \/ (~searchMode /\ \E r \in {"j", "k", "h", "l"} : KeyRuneWith(<<r>>))

\* C36: a navigation event changes the cursor and the window only: the
\* selection, the query, the search mode, the filtered list and the
\* validation message stay as they were (the message of a refused action
\* stays on screen while the user navigates), and the loop goes on.
C36_NavigationKeepsTheRest ==
    [][NavigationEvent =>
          /\ UNCHANGED <<prompt, searchQuery, searchMode, filteredChoices, valMessage>>
          /\ UNCHANGED <<pageSize, minRequired, maxAllowed, interrupted, ret>>
          /\ pc' = "listen"]_vars

\* The toggle on the disabled second choice was refused, and the cursor has
\* moved on to the third choice with the message still shown.
C36_Witness ==
    /\ pc = "listen"
    /\ ~searchMode
    /\ searchQuery = <<>>
    /\ cursorIdx = 2
    /\ valMessage = <<"Cannot select a disabled choice">>

(***************************************************************************)
(* Spinner and Progress (checked under SpecWidget).                        *)
(***************************************************************************)
\* C37: Spinner and Progress: when Stop has returned, every render loop a
\* Start had started has returned, and the restore sequence was written
\* once for each of them; no loop writes it twice; and from the return of
\* Stop to the next call made nothing is written to the terminal.  This for
\* every interleaving of the caller, the loops and the signal goroutine, and
\* for every value a loop's unsynchronised read of stop may return.
C37_StopJoinsTheLoop ==
    /\ [](callerPc = "stopped" =>
             \A i \in 1..Len(loops) :
                 /\ loops[i].pc \in {"none", "exited"}
                 /\ loops[i].pc = "exited" => loops[i].restores = 1)
    /\ [](\A i \in 1..Len(loops) : loops[i].restores <= 1)
    /\ [][(callerPc = "stopped" /\ callerPc' = "stopped")
             => (stdOutput' = stdOutput /\ shown' = shown)]_vars

\* A Progress was started and stopped twice: both loops drew frames and have
\* returned.
C37_Witness ==
    /\ callerPc = "stopped"
    /\ widget.kind = "progress"
    /\ Len(loops) = MaxStarts
    /\ loops[1].pc = "exited"
    /\ loops[2].pc = "exited"
    /\ PlacesOf(stdOutput, "frame") # {}
    /\ Cardinality(PlacesOf(stdOutput, "restore")) = 2

\* C38: Progress: 0 <= current <= steps in every state, whatever the number
\* of Increment calls, of goroutines making them and of redraws between
\* them; Increment changes nothing when steps <= 0, and leaves current at
\* steps once it is there.
C38_CurrentWithinSteps ==
    /\ [](widget.kind = "progress" => (0 <= current /\ current <= widget.steps))
    /\ [][\A w \in Workers : Increment(w) =>
             current' = IF widget.steps <= 0 \/ current = widget.steps
                        THEN current ELSE current + 1]_vars

\* More calls of Increment were made than there are steps, and current is
\* the number of steps.
C38_Witness ==
    /\ widget.kind = "progress"
    /\ widget.steps = MaxSteps
    /\ current = MaxSteps
    /\ incs["w1"].left = 0
    /\ incs["w2"].left < MaxSteps
    /\ shown # <<>>

(***************************************************************************)
(* Text input and secure input: the cursor and the buffer.                 *)
(***************************************************************************)
\* The buffer after the step holds r at the old cursor place and the old
\* characters around it, and the cursor is one further.
InsertedAtCursor(r) ==
    /\ Len(inBuf') = Len(inBuf) + 1
    /\ \A i \in 1..Len(inBuf') :
          inBuf'[i] = IF i <= cursorPos THEN inBuf[i]
                      ELSE IF i = cursorPos + 1 THEN r ELSE inBuf[i - 1]
    /\ cursorPos' = cursorPos + 1

\* The buffer after the step lacks the character before the old cursor place,
\* and the cursor is one back.
RemovedBeforeCursor ==
    /\ Len(inBuf') = Len(inBuf) - 1
    /\ \A i \in 1..Len(inBuf') : inBuf'[i] = IF i < cursorPos THEN inBuf[i] ELSE inBuf[i + 1]
    /\ cursorPos' = cursorPos - 1

\* C39: in a text input and a secure input the cursor stays between 0 and the
\* length of the buffer; a character or Space is inserted at the cursor, which
\* moves on by one; Backspace removes the character before the cursor and does
\* nothing at 0; Left and Right move the cursor by one within the bounds and
\* leave the buffer as it is.
C39_CursorWithinBuffer ==
    /\ [](0 <= cursorPos /\ cursorPos <= Len(inBuf))
    /\ [][(\A r \in InputRunes : tiKeyRuneWith(<<r>>) => InsertedAtCursor(r))
          /\ (tiKeySpace => InsertedAtCursor(" "))
          /\ (tiKeyBackspace =>
                IF cursorPos = 0 THEN inBuf' = inBuf /\ cursorPos' = cursorPos
                ELSE RemovedBeforeCursor)
          /\ (tiKeyLeft =>
                /\ inBuf' = inBuf
                /\ cursorPos' = IF cursorPos = 0 THEN 0 ELSE cursorPos - 1)
          /\ (tiKeyRight =>
                /\ inBuf' = inBuf
                /\ cursorPos' = IF cursorPos = Len(inBuf) THEN cursorPos ELSE cursorPos + 1)]_vars

\* A blank was typed before a letter typed earlier: the cursor stands between them.
C39_Witness ==
    /\ pc = "listen"
    /\ inBuf = <<" ", "a">>
    /\ cursorPos = 1

(***************************************************************************)
(* Text input and secure input: Enter, the validator and Ctrl+C.           *)
(***************************************************************************)
\* The validator is set and refuses the buffer.
Rejected == input.validator # "nil" /\ ~validate(input.validator, inBuf).ok

\* C40: with a validator, Enter on a buffer the validator refuses leaves the
\* session listening with the same buffer; Render returns a nil error only
\* with a buffer the validator accepted at Enter; Ctrl+C returns the empty
\* string with ErrInterrupted.
C40_EnterNeedsAcceptedBuffer ==
    /\ [][(tiKeyEnter /\ Rejected =>
              /\ pc' = "listen"
              /\ ret' = NoRet
              /\ inBuf' = inBuf)
          /\ (tiKeyEnter /\ input.validator # "nil" /\ pc' = "done" =>
              /\ validate(input.validator, inBuf).ok
              /\ ret' = [value |-> TrimRight(inBuf), err |-> "nil"])
          /\ (tiKeyCtrlC => pc' = "done" /\ ret' = [value |-> <<>>, err |-> "ErrInterrupted"])]_vars
    /\ [](pc = "done" /\ ret.err = "nil" /\ input.validator # "nil" =>
              validate(input.validator, inBuf).ok)

\* Enter was pressed on an empty buffer that the validator refuses: the
\* session listens on and shows the validator's message.
C40_Witness ==
    /\ pc = "listen"
    /\ input.validator = "notEmpty"
    /\ inBuf = <<>>
    /\ receivedInput
    /\ valMessage = <<"text is required">>

====
